---- MODULE Spec2Model ----
(***************************************************************************)
(* A model of the sensitivity pipeline of OpenMDAO:                         *)
(*   openmdao/utils/relevance.py  (class Relevance)                         *)
(*                                                                         *)
(* Names are dotted pathnames in the program.  Here a pathname is the       *)
(* sequence of its components: 'G.c1.y' is <<"G","c1","y">> and the root    *)
(* system '' is <<>>, so that name.rpartition('.')[0] is a computation on   *)
(* the name and not a lookup.                                               *)
(***************************************************************************)
EXTENDS Integers, Sequences, FiniteSets, TLC

(***************************************************************************)
(* Pathnames                                                                *)
(***************************************************************************)
Root == <<>>

\* name.rpartition('.')[0]
Parent(n) == IF Len(n) = 0 THEN <<>> ELSE SubSeq(n, 1, Len(n) - 1)

\* openmdao.utils.general_utils.all_ancestors: the pathname and all of its
\* parents, the root '' excluded.
all_ancestors(p) == {SubSeq(p, 1, k) : k \in 1..Len(p)}

\* node.startswith(grp + '.')
StartsWithPrefix(node, grp) ==
    /\ Len(node) > Len(grp)
    /\ SubSeq(node, 1, Len(grp)) = grp

_vars2systems(names) ==
    {Root} \cup UNION {all_ancestors(Parent(n)) : n \in names}

(***************************************************************************)
(* Generic helpers                                                          *)
(***************************************************************************)
\* body(v), with v evaluated once
Bind(v, body(_)) == CHOOSE r \in {body(x) : x \in {v}} : TRUE

RECURSIVE SetToSeq(_)
SetToSeq(S) ==
    IF S = {} THEN <<>>
    ELSE Bind(CHOOSE y \in S : TRUE,
              LAMBDA x : Bind(S \ {x}, LAMBDA T : <<x>> \o SetToSeq(T)))

Range(f) == {f[x] : x \in DOMAIN f}

\* all orders in which a set can be enumerated
RECURSIVE Perms(_)
Perms(S) ==
    IF S = {} THEN {<<>>}
    ELSE UNION {{<<x>> \o p : p \in Perms(S \ {x})} : x \in S}

(***************************************************************************)
(* Directed graphs: [nodes, edges, vars, inputs, haslocal, local]           *)
(*   vars     nodes carrying 'type_' (variables)                            *)
(*   inputs   variables with type_ == 'input' (the others are outputs)      *)
(*   haslocal nodes carrying the 'local' attribute, local those where it    *)
(*            is True                                                       *)
(***************************************************************************)
successors(g, n) == {e[2] : e \in {x \in g.edges : x[1] = n}}
predecessors(g, n) == {e[1] : e \in {x \in g.edges : x[2] = n}}

fnext(g, direction, n) ==
    IF direction = "fwd" THEN successors(g, n) ELSE predecessors(g, n)

\* no node is taken for non-local
all_local(g, n) == FALSE

\* 'local' in node and not node['local']
NonLocal(g, n) == n \in g.haslocal /\ n \notin g.local

\* The order in which networkx enumerates a node's neighbours is the order
\* the edges were inserted in, which the graph's builder decides.  With
\* local unset the order cannot change the result and one order is walked;
\* with local set every order is walked.
NextTargets(todo, local) ==
    IF local THEN todo ELSE {CHOOSE t \in todo : TRUE}

RECURSIVE WalkStack(_, _, _, _, _)
RECURSIVE WalkTargets(_, _, _, _, _, _)
\* while stack: src = stack.pop(); for tgt in fnext(src): ...
\* The value is the set of the sets the walk can return.
WalkStack(g, direction, local, stack, visited) ==
    IF stack = <<>> THEN {visited}
    ELSE UNION {WalkTargets(g, direction, local, todo, rest, visited)
                : todo \in {fnext(g, direction, stack[Len(stack)])},
                  rest \in {SubSeq(stack, 1, Len(stack) - 1)}}

WalkTargets(g, direction, local, todo, stack, visited) ==
    IF todo = {} THEN WalkStack(g, direction, local, stack, visited)
    ELSE UNION {
           IF tgt \in visited
             THEN UNION {WalkTargets(g, direction, local, left, stack, visited)
                         : left \in {todo \ {tgt}}}
           ELSE IF local /\ NonLocal(g, tgt)
             THEN {visited}   \* return visited
           ELSE UNION {WalkTargets(g, direction, local, left, pushed, seen)
                       : left \in {todo \ {tgt}},
                         pushed \in {Append(stack, tgt)},
                         seen \in {visited \cup {tgt}}}
         : tgt \in NextTargets(todo, local)}

\* Relevance._dependent_nodes: the set of possible results
_dependent_nodes(g, start, direction, local) ==
    IF start \in g.nodes
      THEN IF local /\ start \notin g.local
             THEN {{}}
             ELSE Bind(g, LAMBDA gr : WalkStack(gr, direction, local, <<start>>, {start}))
      ELSE {{}}

\* Brute-force reachability, independent of the walk: the least set that
\* holds start and is closed under the edges of the direction.
RECURSIVE Closure(_, _, _)
Closure(g, direction, S) ==
    Bind(S \cup UNION {fnext(g, direction, n) : n \in S},
         LAMBDA T : IF T = S THEN S ELSE Closure(g, direction, T))

Reach(g, direction, start) ==
    IF start \in g.nodes THEN Closure(g, direction, {start}) ELSE {}

(***************************************************************************)
(* The model (the top level Group) as the engine reads it:                  *)
(*   comps       pathnames of the components                                *)
(*   ins, outs   pathnames of the input and output variables                *)
(*   conns       connections <<source output, target input>>                *)
(*               (model._conn_global_abs_in2out)                            *)
(*   haslocal, local   the 'local' attribute of the dataflow graph's nodes  *)
(*   nprocs      model.comm.size                                            *)
(*   mode        model._problem_meta['mode']                                *)
(*   gbpop       model._problem_meta['group_by_pre_opt_post']               *)
(*   grad_groups, always_opt   what _get_relevance_modifiers reports        *)
(* Seed metadata is a sequence of [source, parallel_deriv_color] (the       *)
(* values of the driver's dict, in its order); the color None is "None".    *)
(***************************************************************************)
AutoIVC == <<"_auto_ivc">>

\* model._dataflow_graph: a value flows from an input to its component,
\* from a component to its outputs and along every connection.
DataflowGraph(m) ==
    [nodes    |-> m.comps \cup m.ins \cup m.outs,
     edges    |-> {<<v, Parent(v)>> : v \in m.ins}
                  \cup {<<Parent(v), v>> : v \in m.outs}
                  \cup m.conns,
     vars     |-> m.ins \cup m.outs,
     inputs   |-> m.ins,
     haslocal |-> m.haslocal,
     local    |-> m.local]

\* model.compute_sys_graph(comps_only=True): components, and an edge from
\* the source's component to the target's component for every connection.
compute_sys_graph(m) ==
    [nodes |-> m.comps,
     edges |-> {<<Parent(c[1]), Parent(c[2])>> : c \in m.conns},
     vars  |-> {}]

\* get_rev_conns(model._conn_global_abs_in2out)[src]
rev_conns(m, src) == {c[2] : c \in {x \in m.conns : x[1] = src}}

Sources(metas) == [i \in DOMAIN metas |-> metas[i].source]
SourceSet(metas) == {metas[i].source : i \in DOMAIN metas}

(***************************************************************************)
(* Relevance._setup_nonlinear_relevance                                     *)
(***************************************************************************)
IsAutoDv(dv) == Len(dv) > 1 /\ SubSeq(dv, 1, 1) = AutoIVC  \* dv.startswith('_auto_ivc.')

auto_dvs_of(dvs) == SelectSeq(dvs, IsAutoDv)

\* dv0 = auto_dvs[0] if auto_dvs else dvs[0].rpartition('.')[0]
dv0_of(dvs) ==
    IF auto_dvs_of(dvs) # <<>> THEN auto_dvs_of(dvs)[1] ELSE Parent(dvs[1])

\* dvnode: the var name for an _auto_ivc design variable, else its component
dvnode_of(dv) == IF Parent(dv) = AutoIVC THEN dv ELSE Parent(dv)

\* groups of grad_groups that are not inside another group of grad_groups
remaining_groups(grad_groups) ==
    {g \in grad_groups : ~\E h \in grad_groups : StartsWithPrefix(g, h)}

AddEdges(g, E) ==
    [g EXCEPT !.edges = @ \cup E,
              !.nodes = @ \cup {e[1] : e \in E} \cup {e[2] : e \in E}]

\* the component graph with the nodes of the _auto_ivc design variables
WithAutoDvs(m, dvs) ==
    LET g == compute_sys_graph(m)
        advs == Range(auto_dvs_of(dvs))
    IN AddEdges([g EXCEPT !.nodes = @ \cup advs, !.vars = advs],
                UNION {{<<dv, Parent(inp)>> : inp \in rev_conns(m, dv)} : dv \in advs})

\* ... with the edges between the response components and the design
\* variables, and between the always_opt components and the responses
WithOptEdges(m, dvs, responses) ==
    LET g == WithAutoDvs(m, dvs)
        E1 == UNION {{<<Parent(res), dvnode_of(dv)>>, <<dvnode_of(dv), Parent(res)>>}
                     : res \in responses, dv \in Range(dvs)}
        E2 == UNION {{<<o, Parent(res)>>, <<Parent(res), o>>}
                     : o \in m.always_opt, res \in responses}
    IN AddEdges(g, E1 \cup E2)

\* edges_to_add: every remaining gradient group to and from every node of
\* the graph that it contains
edges_to_add(g, grad_groups) ==
    UNION {UNION {{<<grp, node>>, <<node, grp>>}
                  : node \in {n \in g.nodes : StartsWithPrefix(n, grp)}}
           : grp \in remaining_groups(grad_groups)}

groups_added_of(g, grad_groups) ==
    {grp \in remaining_groups(grad_groups) :
        \E node \in g.nodes : StartsWithPrefix(node, grp)}

NLGraph(m, dvs, responses) ==
    LET g == WithOptEdges(m, dvs, responses)
    IN AddEdges(g, edges_to_add(g, m.grad_groups))

\* strongly connected components
SCCOf(g, n) == {x \in Closure(g, "fwd", {n}) : n \in Closure(g, "fwd", {x})}
SCCs(g) == Bind(g, LAMBDA gr : {SCCOf(gr, n) : n \in gr.nodes})

\* openmdao.utils.graph_utils.get_sccs_topo: the strongly connected
\* components in a topological order; which one is the library's choice.
get_sccs_topo(g) ==
    Bind(g, LAMBDA gr :
        {p \in Perms(SCCs(gr)) :
            \A i \in DOMAIN p : \A j \in DOMAIN p :
                i < j => ~\E e \in gr.edges : e[1] \in p[j] /\ e[2] \in p[i]})

\* s, or its component when s is a variable node
SccSystem(g, s) == IF s \in g.vars THEN Parent(s) ELSE s

RECURSIVE SccWalk(_, _, _, _, _)
\* for strong_con in sccs: ...   st = [pre, post, iterated, addto]
SccWalk(g, dv0, sccs, i, st) ==
    IF i > Len(sccs) THEN st
    ELSE LET names == {SccSystem(g, s) : s \in sccs[i]}
         IN Bind(IF dv0 \in sccs[i]
                   THEN [st EXCEPT !.iterated = @ \cup names, !.addto = "post"]
                 ELSE IF st.addto = "pre"
                   THEN [st EXCEPT !.pre = @ \cup names]
                   ELSE [st EXCEPT !.post = @ \cup names],
                 LAMBDA st1 : SccWalk(g, dv0, sccs, i + 1, st1))

\* in_pre: some output of _auto_ivc that is no design variable feeds a
\* component of pre
auto_ivc_in_pre(m, dvs, pre) ==
    \E vname \in {v \in m.outs : Parent(v) = AutoIVC} :
        /\ vname \notin Range(auto_dvs_of(dvs))
        /\ \E tgt \in rev_conns(m, vname) : Parent(tgt) \in pre

FoldAutoIVC(m, dvs, pre) ==
    LET pre1 == IF AutoIVC \notin pre /\ auto_ivc_in_pre(m, dvs, pre)
                  THEN pre \cup {AutoIVC} ELSE pre
    IN IF Cardinality(pre1) = 1 /\ AutoIVC \in pre1 THEN {} ELSE pre1

\* The partition for one order of the components.  all: _iterated_components
\* is _contains_all.
NonlinearPartition(m, dvs, responses, sccs) ==
    LET ga == groups_added_of(WithOptEdges(m, dvs, responses), m.grad_groups)
    IN Bind(NLGraph(m, dvs, responses), LAMBDA g :
       Bind(SccWalk(g, dv0_of(dvs), sccs, 1,
                    [pre |-> {}, post |-> {}, iterated |-> {}, addto |-> "pre"]),
            LAMBDA st :
              [pre      |-> FoldAutoIVC(m, dvs, st.pre) \ ga,
               post     |-> st.post \ ga,
               iterated |-> st.iterated \ ga,
               all      |-> FALSE]))

ContainsAll == [pre |-> {}, post |-> {}, iterated |-> {}, all |-> TRUE]

\* Relevance._setup_nonlinear_relevance on a model whose _pre_components is
\* None: the set of the partitions it can leave on the model.
_setup_nonlinear_relevance(m, designvars, responses) ==
    IF designvars = <<>> \/ responses = <<>> \/ ~m.gbpop
      THEN {ContainsAll}
    ELSE IF Root \in m.grad_groups
      THEN {ContainsAll}
    ELSE {NonlinearPartition(m, Sources(designvars), SourceSet(responses), sccs)
          : sccs \in get_sccs_topo(NLGraph(m, Sources(designvars),
                                           SourceSet(responses)))}

(***************************************************************************)
(* Relevance arrays.  An array is an object: [c, n] is the n-th array       *)
(* object with content c (a sequence of booleans, one per index of the      *)
(* name -> index enumeration).  Two arrays can be equal in content and be    *)
(* different objects.  None is NoArray.                                     *)
(***************************************************************************)
NoArray == [c |-> <<>>, n |-> -1]

\* rel_array = np.zeros(len(all_names)); rel_array[[names2inds[n] ...]] = True
names2content(names, all_names) ==
    [i \in 1..Len(all_names) |-> all_names[i] \in names]

content2names(content, all_names) ==
    {all_names[i] : i \in {k \in DOMAIN content : content[k]}}

content_and(a, b) == [i \in DOMAIN a |-> a[i] /\ b[i]]
content_or(a, b) == [i \in DOMAIN a |-> a[i] \/ b[i]]
content_not(a) == [i \in DOMAIN a |-> ~a[i]]

\* a new array object: distinct from every object of live
NewArray(content, live) ==
    [c |-> content,
     n |-> CHOOSE k \in 0..Cardinality(live) :
             /\ [c |-> content, n |-> k] \notin live
             /\ \A j \in 0..(k - 1) : [c |-> content, n |-> j] \in live]

\* array_hash(arr): the cache is keyed by the content
array_hash(arr) == arr.c

\* Relevance._get_cached_array: [arr, cache]
_get_cached_array(cache, arr) ==
    IF array_hash(arr) \in DOMAIN cache
      THEN [arr |-> cache[array_hash(arr)], cache |-> cache]
      ELSE [arr |-> arr, cache |-> (array_hash(arr) :> arr) @@ cache]

\* a freshly computed array with the given content, passed through the
\* cache; extra: the live arrays that are not in the cache
CacheNew(cache, extra, content) ==
    _get_cached_array(cache, NewArray(content, Range(cache) \cup extra))

(***************************************************************************)
(* Seed maps.  A key is a seed name (a str) or a frozenset of seed names;   *)
(* the two forms are different keys.  A seed map is [outer, subs]: outer    *)
(* maps a forward key to the index in subs of its inner dict, so that two   *)
(* forward keys can share one inner dict, as they do after                  *)
(*     seed_var_map[fseed] = seed_var_map[frozenset((fseed,))] = vsub = {}  *)
(***************************************************************************)
KStr(name) == [single |-> TRUE, seeds |-> {name}]
KSet(S) == [single |-> FALSE, seeds |-> S]

EmptyMap == [outer |-> <<>>, subs |-> <<>>]

MapHas(m, fk, rk) ==
    /\ fk \in DOMAIN m.outer
    /\ rk \in DOMAIN m.subs[m.outer[fk]]

MapGet(m, fk, rk) == m.subs[m.outer[fk]][rk]

\* m[fk] = {} for every fk of fks, one new dict for all of them
MapNewSub(m, fks) ==
    [outer |-> [k \in fks |-> Len(m.subs) + 1] @@ m.outer,
     subs  |-> Append(m.subs, <<>>)]

\* m[fk][rk] = arr for every rk of rks
MapPut(m, fk, rks, arr) ==
    [m EXCEPT !.subs[m.outer[fk]] = [k \in rks |-> arr] @@ @]

\* the key pairs of a seed map
MapKeys(m) ==
    {<<fk, rk>> \in (DOMAIN m.outer) \X UNION {DOMAIN m.subs[i] : i \in DOMAIN m.subs}
        : MapHas(m, fk, rk)}

\* a union that takes the array of one seed only
_union_arrays_of_one(seed_map, seeds) ==
    IF seeds = {} THEN <<>>
    ELSE seed_map[CHOOSE x \in seeds : TRUE].c

\* Relevance._union_arrays: the content of the union
_union_arrays(seed_map, seeds) ==
    IF seeds = {} THEN <<>>
    ELSE LET first == CHOOSE x \in seeds : TRUE
         IN [i \in DOMAIN seed_map[first].c |->
                \E x \in seeds : seed_map[x].c[i]]

\* Relevance._combine_relevance: [arr, cache]
_combine_relevance(cache, extra, fmap, fwd_seeds, rmap, rev_seeds) ==
    CacheNew(cache, extra,
             content_and(_union_arrays(fmap, fwd_seeds),
                         _union_arrays(rmap, rev_seeds)))

\* a miss that always stores into a new inner dict
_get_rel_array_new_dict(cache, extra, seed_map, single_seed2rel, fk, rk) ==
    IF MapHas(seed_map, fk, rk)
      THEN [arr |-> MapGet(seed_map, fk, rk), cache |-> cache, map |-> seed_map]
    ELSE Bind(_combine_relevance(cache, extra, single_seed2rel.fwd, fk.seeds,
                                 single_seed2rel.rev, rk.seeds), LAMBDA r :
           [arr |-> r.arr, cache |-> r.cache,
            map |-> MapPut(MapNewSub(seed_map, {fk}), fk, {rk}, r.arr)])

\* Relevance._get_rel_array: [arr, cache, map].  A miss is reached with
\* frozenset keys only: every pair of str keys is stored at construction.
_get_rel_array(cache, extra, seed_map, single_seed2rel, fk, rk) ==
    IF MapHas(seed_map, fk, rk)
      THEN [arr |-> MapGet(seed_map, fk, rk), cache |-> cache, map |-> seed_map]
    ELSE LET m1 == IF fk \notin DOMAIN seed_map.outer
                     THEN MapNewSub(seed_map, {fk}) ELSE seed_map
         IN Bind(_combine_relevance(cache, extra, single_seed2rel.fwd, fk.seeds,
                                    single_seed2rel.rev, rk.seeds), LAMBDA r :
              [arr |-> r.arr, cache |-> r.cache, map |-> MapPut(m1, fk, {rk}, r.arr)])

(***************************************************************************)
(* Relevance._set_all_seeds                                                 *)
(***************************************************************************)
\* the sources of the metadata in the order of their first occurrence (the
\* order of the keys of _single_seed2relvars[io])
RECURSIVE SeedOrder(_, _)
SeedOrder(metas, i) ==
    IF i > Len(metas) THEN <<>>
    ELSE LET rest == SeedOrder(metas, i + 1)
             src == metas[i].source
         IN <<src>> \o SelectSeq(rest, LAMBDA x : x # src)

\* local = nprocs > 1 and meta['parallel_deriv_color'] is not None
IsLocalSeed(m, meta) == m.nprocs > 1 /\ meta.parallel_deriv_color # "None"

\* the metadata of a source (the last one given for it)
MetaOf(metas, src) ==
    metas[CHOOSE i \in DOMAIN metas :
            /\ metas[i].source = src
            /\ \A j \in DOMAIN metas : metas[j].source = src => j <= i]

\* all_systems: '' and the ancestors of every system of the graph
all_systems_of(g) ==
    {Root} \cup UNION {all_ancestors(Parent(v)) : v \in g.vars}
           \cup UNION {all_ancestors(n) : n \in g.nodes \ g.vars}

\* The walks _single_seed_array_iter can see: for every seed of a direction
\* one of the sets _dependent_nodes can return.
RECURSIVE DepChoicesOf(_, _, _, _)
DepChoicesOf(m, metas, direction, srcs) ==
    IF srcs = <<>> THEN {<<>>}
    ELSE {(Head(srcs) :> d) @@ f :
            d \in _dependent_nodes(DataflowGraph(m), Head(srcs), direction,
                                   IsLocalSeed(m, MetaOf(metas, Head(srcs)))),
            f \in DepChoicesOf(m, metas, direction, Tail(srcs))}

DepChoices(m, metas, direction) ==
    DepChoicesOf(m, metas, direction, SeedOrder(metas, 1))

RECURSIVE SingleSeedLoop(_, _, _, _, _)
\* for seed, local, var_array, sys_array in self._single_seed_array_iter(..):
\*     self._single_seed2relvars[io][seed] = self._get_cached_array(var_array)
\*     self._single_seed2relsys[io][seed] = self._get_cached_array(sys_array)
SingleSeedLoop(E, io, srcs, i, deps) ==
    IF i > Len(srcs) THEN E
    ELSE LET depnodes == deps[srcs[i]]
             rel_systems == _vars2systems(depnodes)
             rel_vars == depnodes \ Range(E.all_systems)
         IN Bind(CacheNew(E.cache, {}, names2content(rel_vars, E.all_vars)), LAMBDA v :
            Bind(CacheNew(v.cache, {}, names2content(rel_systems, E.all_systems)), LAMBDA sy :
            Bind([E EXCEPT !.cache = sy.cache,
                           !.relvars[io] = (srcs[i] :> v.arr) @@ @,
                           !.relsys[io] = (srcs[i] :> sy.arr) @@ @],
                 LAMBDA E1 : SingleSeedLoop(E1, io, srcs, i + 1, deps))))

\* E.map[fk][rk] = self._get_cached_array(content) for every rk of rks,
\* for the variable map (vcontent) and the system map (scontent)
PutBoth(E, fk, rks, vcontent, scontent) ==
    Bind(CacheNew(E.cache, {}, vcontent), LAMBDA v :
    Bind(CacheNew(v.cache, {}, scontent), LAMBDA sy :
        [E EXCEPT !.cache = sy.cache,
                  !.seed_var_map = MapPut(@, fk, rks, v.arr),
                  !.seed_sys_map = MapPut(@, fk, rks, sy.arr)]))

RECURSIVE PairLoopRev(_, _, _, _)
\* for rsrc, rvarr in self._single_seed2relvars['rev'].items(): ...
PairLoopRev(E, fseed, rsrcs, j) ==
    IF j > Len(rsrcs) THEN E
    ELSE Bind(PutBoth(E, KStr(fseed), {KStr(rsrcs[j]), KSet({rsrcs[j]})},
                      content_and(E.relvars.fwd[fseed].c, E.relvars.rev[rsrcs[j]].c),
                      content_and(E.relsys.fwd[fseed].c, E.relsys.rev[rsrcs[j]].c)),
              LAMBDA E1 : PairLoopRev(E1, fseed, rsrcs, j + 1))

RECURSIVE PairLoopFwd(_, _, _, _)
\* for fseed, fvarr in self._single_seed2relvars['fwd'].items(): ...
PairLoopFwd(E, fsrcs, i, rsrcs) ==
    IF i > Len(fsrcs) THEN E
    ELSE LET keys == {KStr(fsrcs[i]), KSet({fsrcs[i]})}
         IN Bind([E EXCEPT !.seed_var_map = MapNewSub(@, keys),
                           !.seed_sys_map = MapNewSub(@, keys)], LAMBDA E1 :
            Bind(PairLoopRev(E1, fsrcs[i], rsrcs, 1), LAMBDA E2 :
                 PairLoopFwd(E2, fsrcs, i + 1, rsrcs)))

RECURSIVE FwdAllRevLoop(_, _, _, _)
\* seed_var_map[fsrc][rev_seeds] = cached(farr & all_rseed_varray)
FwdAllRevLoop(E, fsrcs, i, rev_seeds) ==
    IF i > Len(fsrcs) THEN E
    ELSE Bind(PutBoth(E, KStr(fsrcs[i]), {KSet(rev_seeds)},
                      content_and(E.relvars.fwd[fsrcs[i]].c,
                                  _union_arrays(E.relvars.rev, rev_seeds)),
                      content_and(E.relsys.fwd[fsrcs[i]].c,
                                  _union_arrays(E.relsys.rev, rev_seeds))),
              LAMBDA E1 : FwdAllRevLoop(E1, fsrcs, i + 1, rev_seeds))

RECURSIVE AllFwdRevLoop(_, _, _, _)
\* seed_var_map[fwd_seeds][rsrc] = cached(rarr & all_fseed_varray)
AllFwdRevLoop(E, fwd_seeds, rsrcs, j) ==
    IF j > Len(rsrcs) THEN E
    ELSE Bind(PutBoth(E, KSet(fwd_seeds), {KStr(rsrcs[j])},
                      content_and(E.relvars.rev[rsrcs[j]].c,
                                  _union_arrays(E.relvars.fwd, fwd_seeds)),
                      content_and(E.relsys.rev[rsrcs[j]].c,
                                  _union_arrays(E.relsys.fwd, fwd_seeds))),
              LAMBDA E1 : AllFwdRevLoop(E1, fwd_seeds, rsrcs, j + 1))

\* The engine's maps after _set_all_seeds: [all_systems, all_vars, cache,
\* relvars, relsys, seed_var_map, seed_sys_map].  all_systems and all_vars
\* are the name -> index enumerations (_sys2idx, _var2idx).
_set_all_seeds(m, fwd_meta, rev_meta, deps) ==
    LET g == DataflowGraph(m)
        fwd_seeds == SourceSet(fwd_meta)
        rev_seeds == SourceSet(rev_meta)
        fsrcs == SeedOrder(fwd_meta, 1)
        rsrcs == SeedOrder(rev_meta, 1)
        E0 == [all_systems  |-> SetToSeq(all_systems_of(g)),
               all_vars     |-> SetToSeq(g.vars),
               cache        |-> <<>>,
               relvars      |-> [fwd |-> <<>>, rev |-> <<>>],
               relsys       |-> [fwd |-> <<>>, rev |-> <<>>],
               seed_var_map |-> EmptyMap,
               seed_sys_map |-> EmptyMap]
    IN IF fwd_meta = <<>> \/ rev_meta = <<>>
         THEN [E0 EXCEPT !.all_systems = <<>>, !.all_vars = <<>>]
       ELSE Bind(E0, LAMBDA Ea :
            Bind(SingleSeedLoop(Ea, "fwd", fsrcs, 1, deps.fwd), LAMBDA E1 :
            Bind(SingleSeedLoop(E1, "rev", rsrcs, 1, deps.rev), LAMBDA E2 :
            Bind(PairLoopFwd(E2, fsrcs, 1, rsrcs), LAMBDA E3 :
            Bind(FwdAllRevLoop(E3, fsrcs, 1, rev_seeds), LAMBDA E4 :
            \* seed_var_map[fwd_seeds] = {}; seed_sys_map[fwd_seeds] = {}
            Bind([E4 EXCEPT !.seed_var_map = MapNewSub(@, {KSet(fwd_seeds)}),
                            !.seed_sys_map = MapNewSub(@, {KSet(fwd_seeds)})], LAMBDA E5 :
            Bind(AllFwdRevLoop(E5, fwd_seeds, rsrcs, 1), LAMBDA E6 :
                 PutBoth(E6, KSet(fwd_seeds), {KSet(rev_seeds)},
                         content_and(_union_arrays(E6.relvars.fwd, fwd_seeds),
                                     _union_arrays(E6.relvars.rev, rev_seeds)),
                         content_and(_union_arrays(E6.relsys.fwd, fwd_seeds),
                                     _union_arrays(E6.relsys.rev, rev_seeds))))))))))

(***************************************************************************)
(* Relevance.iter_seed_pair_relevance and Relevance._par_deriv_err_check    *)
(***************************************************************************)
\* _get_io_filter / _apply_node_filter: "all", "inputs", "outputs", "none"
_apply_node_filter(g, names, filt) ==
    CASE filt = "all"     -> names
      [] filt = "inputs"  -> {n \in names : n \in g.inputs}
      [] filt = "outputs" -> {n \in names : n \notin g.inputs}
      [] OTHER            -> {}

\* inter = self._get_rel_array(self._seed_var_map, ..., seed, rseed), as names
PairInter(E, seed, rseed) ==
    content2names(MapGet(E.seed_var_map, KStr(seed), KStr(rseed)).c, E.all_vars)

\* Relevance.iter_seed_pair_relevance: the sequence of the (seed, rseed,
\* names) it yields when it enumerates the seeds in the orders forder, rorder
iter_seed_pair_relevance(E, g, forder, rorder, filt) ==
    LET pairs == [k \in 1..(Len(forder) * Len(rorder)) |->
                    [seed  |-> forder[((k - 1) \div Len(rorder)) + 1],
                     rseed |-> rorder[((k - 1) % Len(rorder)) + 1]]]
        yielded == SelectSeq(pairs, LAMBDA pr : PairInter(E, pr.seed, pr.rseed) # {})
    IN IF filt = "none" THEN <<>>
       ELSE [k \in DOMAIN yielded |->
               [seed   |-> yielded[k].seed,
                rseed  |-> yielded[k].rseed,
                relset |-> _apply_node_filter(g, PairInter(E, yielded[k].seed,
                                                           yielded[k].rseed), filt)]]

\* pd_err_chk[color][name] = relset, for every item of the sequence that
\* passes the test: a later item replaces an earlier one with the same name.
\* The value is a function from <<color, name>> to the relset.
RECURSIVE PdAssign(_, _, _, _, _, _)
PdAssign(chk, items, k, g, metas, fwd) ==
    IF k > Len(items) THEN chk
    ELSE LET name == IF fwd THEN items[k].seed ELSE items[k].rseed
             color == MetaOf(metas, name).parallel_deriv_color
         IN PdAssign(
              IF name \in SourceSet(metas) /\ name \in g.local /\ color # "None"
                THEN (<<color, name>> :> items[k].relset) @@ chk
                ELSE chk,
              items, k + 1, g, metas, fwd)

pd_err_chk_of(E, m, responses, desvars, forder, rorder) ==
    LET g == DataflowGraph(m)
        c1 == IF m.mode \in {"fwd", "auto"}
                THEN PdAssign(<<>>, iter_seed_pair_relevance(E, g, forder, rorder, "inputs"),
                              1, g, desvars, TRUE)
                ELSE <<>>
    IN IF m.mode \in {"rev", "auto"}
         THEN PdAssign(c1, iter_seed_pair_relevance(E, g, forder, rorder, "outputs"),
                       1, g, responses, FALSE)
         ELSE c1

\* errs: the names of each color that overlap another name of the color
\* (a function from the colors that have any to the set of those names)
pd_errs_of(chk) ==
    LET bad(color) == {k[2] : k \in {x \in DOMAIN chk :
                         /\ x[1] = color
                         /\ \E y \in DOMAIN chk :
                               /\ y[1] = color
                               /\ y[2] # x[2]
                               /\ chk[x] \cap chk[y] # {}}}
    IN [color \in {c \in {k[1] : k \in DOMAIN chk} : bad(c) # {}} |-> bad(color)]

\* the errs of one worker: the seeds are enumerated in the orders forder, rorder
_par_deriv_errs(E, m, responses, desvars, forder, rorder) ==
    pd_errs_of(pd_err_chk_of(E, m, responses, desvars, forder, rorder))

\* has_par_derivs: some seed is walked with local set
has_par_derivs(m, fwd_meta, rev_meta) ==
    \/ \E i \in DOMAIN fwd_meta : IsLocalSeed(m, fwd_meta[i])
    \/ \E i \in DOMAIN rev_meta : IsLocalSeed(m, rev_meta[i])

(***************************************************************************)
(* The rest of _set_all_seeds: the responses no design variable reaches     *)
(***************************************************************************)
\* has_par_derivs[seed]: the direction the seed was walked in with local set
\* ('rev' when it is a seed of both directions)
par_deriv_dir(m, fwd_meta, rev_meta, seed) ==
    IF seed \in SourceSet(rev_meta) /\ IsLocalSeed(m, MetaOf(rev_meta, seed))
      THEN "rev"
    ELSE IF seed \in SourceSet(fwd_meta) /\ IsLocalSeed(m, MetaOf(fwd_meta, seed))
      THEN "fwd"
      ELSE "none"

RECURSIVE UnrestrictedLoop(_, _, _, _, _, _, _)
\* farrs[fsrc] = farr, or for a seed of has_par_derivs the array of the walk
\* with local=False; acc is [cache, arrs]
UnrestrictedLoop(acc, E, m, fwd_meta, rev_meta, srcs, io) ==
    IF srcs = <<>> THEN acc
    ELSE LET src == Head(srcs)
             dir == par_deriv_dir(m, fwd_meta, rev_meta, src)
             depnodes == CHOOSE d \in _dependent_nodes(DataflowGraph(m), src, dir, FALSE) : TRUE
             with(r) == [cache |-> r.cache, arrs |-> (src :> r.arr) @@ acc.arrs]
         IN Bind(IF dir = "none"
                   THEN [acc EXCEPT !.arrs = (src :> E.relvars[io][src]) @@ @]
                   ELSE Bind(CacheNew(acc.cache, {},
                                      names2content(depnodes \ Range(E.all_systems),
                                                    E.all_vars)), with),
                 LAMBDA acc1 : Bind(Tail(srcs), LAMBDA rest :
                     UnrestrictedLoop(acc1, E, m, fwd_meta, rev_meta, rest, io)))

\* [cache, no_dv_responses]
no_dv_responses_of(E, m, fwd_meta, rev_meta) ==
    LET idx(name) == CHOOSE i \in DOMAIN E.all_vars : E.all_vars[i] = name
    IN Bind(UnrestrictedLoop([cache |-> E.cache, arrs |-> <<>>], E, m, fwd_meta,
                             rev_meta, SeedOrder(fwd_meta, 1), "fwd"), LAMBDA f :
       Bind(UnrestrictedLoop([cache |-> f.cache, arrs |-> <<>>], E, m, fwd_meta,
                             rev_meta, SeedOrder(rev_meta, 1), "rev"), LAMBDA r :
       Bind(_union_arrays(f.arrs, SourceSet(fwd_meta)), LAMBDA allfarrs :
         [cache |-> r.cache,
          no_dv_responses |->
              SelectSeq(SeedOrder(rev_meta, 1),
                        LAMBDA rsrc : ~content_and(allfarrs, r.arrs[rsrc].c)[idx(rsrc)])])))

(***************************************************************************)
(* Relevance._setup_nonlinear_sets                                          *)
(***************************************************************************)
\* the ancestors of the components, and '' when there are any
WithAncestors(comps) ==
    LET systems == UNION {all_ancestors(c) : c \in comps}
    IN IF systems # {} THEN systems \cup {Root} ELSE systems

\* [cache, sets]; part is what the model holds in _pre_components,
\* _post_components and _iterated_components
_setup_nonlinear_sets(cache, all_systems, part) ==
    Bind(CacheNew(cache, {}, names2content(WithAncestors(part.pre), all_systems)),
         LAMBDA pre :
    Bind(CacheNew(pre.cache, {}, names2content(WithAncestors(part.post), all_systems)),
         LAMBDA post :
      LET iter_content == IF part.all
                            THEN [i \in DOMAIN all_systems |-> TRUE]
                            ELSE content_not(content_or(pre.arr.c, post.arr.c))
          \* not passed through the cache
          iter_array == NewArray(iter_content, Range(post.cache))
      IN [cache |-> post.cache,
          sets  |-> [pre |-> pre.arr, iter |-> iter_array, post |-> post.arr]]))

(***************************************************************************)
(* State of one Relevance engine and of the model it is built on            *)
(***************************************************************************)
VARIABLES
    cfg,                   \* [m, fwd_meta, rev_meta, maxdepth]: the model and the driver's metadata
    pc,                    \* "new" (before __init__), "ready", "failed" (__init__ raised)
    model_parts,           \* model._pre_components/_post_components/_iterated_components, NoParts when None
    _all_systems,          \* _sys2idx as the sequence of the names by index
    _all_vars,             \* _var2idx as the sequence of the names by index
    _rel_array_cache,
    _single_seed2relvars,
    _single_seed2relsys,
    _seed_var_map,
    _seed_sys_map,
    _all_seed_vars,
    _seed_vars,
    _active,               \* "None", "True", "False"
    _current_rel_varray,
    _current_rel_sarray,
    _nonlinear_sets,
    _no_dv_responses,
    pd_errs,               \* the overlaps the RuntimeError of __init__ reports
    stack,                 \* the context managers that are open, outermost first
    mpi,                   \* the workers of the communicator inside _par_deriv_err_check
    fd,                    \* an ApproximationScheme and the system it approximates
    walk,                  \* a call of _dependent_nodes and what it returned
    heap                   \* the array objects of an engine, by identity

engine_vars == <<cfg, pc, model_parts, _all_systems, _all_vars, _rel_array_cache,
                 _single_seed2relvars, _single_seed2relsys, _seed_var_map,
                 _seed_sys_map, _all_seed_vars, _seed_vars, _active,
                 _current_rel_varray, _current_rel_sarray, _nonlinear_sets,
                 _no_dv_responses, pd_errs, stack>>

\* outside the runs that follow several workers or an approximation scheme
NoMPI == [remote |-> <<>>, pc |-> <<>>, sent |-> <<>>, gathers |-> <<>>, msg |-> <<>>]
NoFD == [pc |-> "none"]
NoWalk == [pc |-> "none"]
NoHeap == [pc |-> "none"]
other_vars == <<mpi, fd, walk, heap>>

NoParts == [pre |-> {}, post |-> {}, iterated |-> {}, all |-> FALSE, none |-> TRUE]

\* the arrays that are alive outside the cache
LiveExtra == Range(_nonlinear_sets)

\* a guard that lets an engine that was never activated through
only_when_False == _active = "False"

\* not self._active
NotActive == _active \in {"None", "False"}

(***************************************************************************)
(* Relevance.__init__                                                       *)
(***************************************************************************)
\* an engine that can always be turned on later
InitActive_None(fwd_meta, rev_meta) == "None"

\* self._active = None  # allow relevance to be turned on later
\* if not (fwd_meta and rev_meta): self._active = False  # relevance will never be active
InitActive(fwd_meta, rev_meta) ==
    IF fwd_meta = <<>> \/ rev_meta = <<>> THEN "False" ELSE "None"

\* The engine __init__ leaves behind; deps are the walks of the seeds and
\* part is what _setup_nonlinear_relevance left on the model.
Relevance__init__(m, fwd_meta, rev_meta, deps, part) ==
    LET empty == fwd_meta = <<>> \/ rev_meta = <<>>
    IN Bind(_set_all_seeds(m, fwd_meta, rev_meta, deps), LAMBDA E :
       Bind(IF empty THEN [cache |-> E.cache, no_dv_responses |-> <<>>]
            ELSE no_dv_responses_of(E, m, fwd_meta, rev_meta), LAMBDA nodv :
       Bind(IF part.pre # {} \/ part.post # {}
              THEN _setup_nonlinear_sets(nodv.cache, E.all_systems, part)
              ELSE [cache |-> nodv.cache, sets |-> <<>>], LAMBDA nl :
       [all_systems     |-> E.all_systems,
        all_vars        |-> E.all_vars,
        cache           |-> nl.cache,
        relvars         |-> E.relvars,
        relsys          |-> E.relsys,
        seed_var_map    |-> E.seed_var_map,
        seed_sys_map    |-> E.seed_sys_map,
        all_seed_vars   |-> [fwd |-> SourceSet(fwd_meta), rev |-> SourceSet(rev_meta)],
        \* self._set_seeds(fwd_seeds, rev_seeds), not reached with empty metadata
        seed_vars       |-> IF empty THEN [fwd |-> {}, rev |-> {}]
                            ELSE [fwd |-> SourceSet(fwd_meta), rev |-> SourceSet(rev_meta)],
        active          |-> InitActive(fwd_meta, rev_meta),
        \* self._current_rel_varray = None; self._current_rel_sarray = None
        varray          |-> NoArray,
        sarray          |-> NoArray,
        nonlinear_sets  |-> nl.sets,
        no_dv_responses |-> nodv.no_dv_responses])))

\* The errs of this worker's _par_deriv_err_check, <<>> when it is not run
ConstructErrs(m, fwd_meta, rev_meta, deps, forder, rorder) ==
    IF fwd_meta # <<>> /\ rev_meta # <<>> /\ has_par_derivs(m, fwd_meta, rev_meta)
      THEN Bind(_set_all_seeds(m, fwd_meta, rev_meta, deps), LAMBDA E :
                _par_deriv_errs(E, m, rev_meta, fwd_meta, forder, rorder))
      ELSE <<>>

\* Relevance(model, fwd_meta, rev_meta) on a model that holds no partition
\* yet.  The other workers of the communicator report no overlap.
Construct ==
    /\ pc = "new"
    /\ \E df \in DepChoices(cfg.m, cfg.fwd_meta, "fwd") :
       \E dr \in DepChoices(cfg.m, cfg.rev_meta, "rev") :
       \E forder \in Perms(SourceSet(cfg.fwd_meta)) :
       \E rorder \in Perms(SourceSet(cfg.rev_meta)) :
       \E part \in _setup_nonlinear_relevance(cfg.m, cfg.fwd_meta, cfg.rev_meta) :
         LET deps == [fwd |-> df, rev |-> dr]
         IN \E errs \in {ConstructErrs(cfg.m, cfg.fwd_meta, cfg.rev_meta, deps,
                                       forder, rorder)} :
            IF errs # <<>>
              \* raise RuntimeError: the object holds what _set_all_seeds assigned
              THEN \E E \in {_set_all_seeds(cfg.m, cfg.fwd_meta, cfg.rev_meta, deps)} :
                   /\ pc' = "failed"
                   /\ pd_errs' = errs
                   /\ _all_systems' = E.all_systems
                   /\ _all_vars' = E.all_vars
                   /\ _rel_array_cache' = E.cache
                   /\ _single_seed2relvars' = E.relvars
                   /\ _single_seed2relsys' = E.relsys
                   /\ _seed_var_map' = E.seed_var_map
                   /\ _seed_sys_map' = E.seed_sys_map
                   /\ _all_seed_vars' = [fwd |-> SourceSet(cfg.fwd_meta),
                                         rev |-> SourceSet(cfg.rev_meta)]
                   /\ _seed_vars' = _all_seed_vars'
                   /\ _current_rel_varray' =
                          MapGet(E.seed_var_map, KSet(SourceSet(cfg.fwd_meta)),
                                 KSet(SourceSet(cfg.rev_meta)))
                   /\ _current_rel_sarray' =
                          MapGet(E.seed_sys_map, KSet(SourceSet(cfg.fwd_meta)),
                                 KSet(SourceSet(cfg.rev_meta)))
                   /\ UNCHANGED <<cfg, model_parts, _active, _nonlinear_sets,
                                  _no_dv_responses, stack, other_vars>>
              ELSE \E R \in {Relevance__init__(cfg.m, cfg.fwd_meta, cfg.rev_meta,
                                               deps, part)} :
                   /\ pc' = "ready"
                   /\ model_parts' = [pre |-> part.pre, post |-> part.post,
                                      iterated |-> part.iterated, all |-> part.all,
                                      none |-> FALSE]
                   /\ _all_systems' = R.all_systems
                   /\ _all_vars' = R.all_vars
                   /\ _rel_array_cache' = R.cache
                   /\ _single_seed2relvars' = R.relvars
                   /\ _single_seed2relsys' = R.relsys
                   /\ _seed_var_map' = R.seed_var_map
                   /\ _seed_sys_map' = R.seed_sys_map
                   /\ _all_seed_vars' = R.all_seed_vars
                   /\ _seed_vars' = R.seed_vars
                   /\ _active' = R.active
                   /\ _current_rel_varray' = R.varray
                   /\ _current_rel_sarray' = R.sarray
                   /\ _nonlinear_sets' = R.nonlinear_sets
                   /\ _no_dv_responses' = R.no_dv_responses
                   /\ UNCHANGED <<cfg, pd_errs, stack, other_vars>>

(***************************************************************************)
(* Relevance._set_seeds                                                     *)
(***************************************************************************)
\* st is [seed_vars, varray, sarray, cache, seed_var_map, seed_sys_map]
EngineState ==
    [seed_vars    |-> _seed_vars,
     varray       |-> _current_rel_varray,
     sarray       |-> _current_rel_sarray,
     cache        |-> _rel_array_cache,
     seed_var_map |-> _seed_var_map,
     seed_sys_map |-> _seed_sys_map]

_set_seeds(st, extra, relvars, relsys, fwd_seeds, rev_seeds) ==
    IF fwd_seeds # {} /\ rev_seeds # {}
      THEN Bind(_get_rel_array(st.cache, extra, st.seed_var_map, relvars,
                               KSet(fwd_seeds), KSet(rev_seeds)), LAMBDA v :
           Bind(_get_rel_array(v.cache, extra, st.seed_sys_map, relsys,
                               KSet(fwd_seeds), KSet(rev_seeds)), LAMBDA sy :
              [seed_vars    |-> [fwd |-> fwd_seeds, rev |-> rev_seeds],
               varray       |-> v.arr,
               sarray       |-> sy.arr,
               cache        |-> sy.cache,
               seed_var_map |-> v.map,
               seed_sys_map |-> sy.map]))
      ELSE [st EXCEPT !.seed_vars = [fwd |-> fwd_seeds, rev |-> rev_seeds]]

\* the engine's state becomes st
Becomes(st) ==
    /\ _seed_vars' = st.seed_vars
    /\ _current_rel_varray' = st.varray
    /\ _current_rel_sarray' = st.sarray
    /\ _rel_array_cache' = st.cache
    /\ _seed_var_map' = st.seed_var_map
    /\ _seed_sys_map' = st.seed_sys_map

(***************************************************************************)
(* The context managers.  Entering one runs its code up to the yield and    *)
(* pushes a frame; leaving one runs the code after the yield (the finally   *)
(* clause, which runs on a normal exit and when an exception propagates     *)
(* out of the body) and pops the frame.  A frame holds the engine's values  *)
(* at entry, which are what the generator saved (save_active, save) where   *)
(* it saves them; noop is the branch that yields without a try.             *)
(***************************************************************************)
NoneArg == [none |-> TRUE, seeds |-> {}]
SomeArg(S) == [none |-> FALSE, seeds |-> S]

Frame(kind, noop) ==
    [kind |-> kind, noop |-> noop,
     save_active |-> _active, save |-> _seed_vars,
     \* the system array at entry, which activate_nonlinear does not save
     save_sarray |-> IF kind = "activate_nonlinear" THEN _current_rel_sarray
                     ELSE NoArray]

CanEnter == pc = "ready" /\ Len(stack) < cfg.maxdepth

constants_unchanged ==
    UNCHANGED <<cfg, pc, model_parts, _all_systems, _all_vars, _single_seed2relvars,
                _single_seed2relsys, _all_seed_vars, _nonlinear_sets,
                _no_dv_responses, pd_errs, other_vars>>

maps_unchanged ==
    UNCHANGED <<_rel_array_cache, _seed_var_map, _seed_sys_map>>

\* with rel.active(b):
active_enter(b) ==
    /\ CanEnter
    /\ IF NotActive
         THEN /\ stack' = Append(stack, Frame("active", TRUE))
              /\ UNCHANGED _active
         ELSE /\ stack' = Append(stack, Frame("active", FALSE))
              /\ _active' = IF b THEN "True" ELSE "False"
    /\ UNCHANGED <<_seed_vars, _current_rel_varray, _current_rel_sarray>>
    /\ maps_unchanged
    /\ constants_unchanged

\* a guard that also skips an engine that was never activated
skips_when_not_active == NotActive

\* if self._active is False: yield    (all_seeds_active and seeds_active)
skips_seed_scope == _active = "False"

\* with rel.all_seeds_active():
all_seeds_active_enter ==
    /\ CanEnter
    /\ IF skips_seed_scope
         THEN /\ stack' = Append(stack, Frame("all_seeds_active", TRUE))
              /\ UNCHANGED <<_active, _seed_vars, _current_rel_varray,
                             _current_rel_sarray>>
              /\ maps_unchanged
         ELSE /\ stack' = Append(stack, Frame("all_seeds_active", FALSE))
              /\ _active' = "True"
              /\ \E st \in {_set_seeds(EngineState, LiveExtra, _single_seed2relvars,
                                        _single_seed2relsys, _all_seed_vars.fwd,
                                        _all_seed_vars.rev)} : Becomes(st)
    /\ constants_unchanged

\* fwd_seeds = self._all_seed_vars['fwd'] if fwd_seeds is None else frozenset(fwd_seeds)
seeds_or_all(arg, all) == IF arg.none THEN all ELSE arg.seeds

\* with rel.seeds_active(fwd_seeds, rev_seeds):
seeds_active_enter(fwd, rev) ==
    /\ CanEnter
    /\ IF skips_seed_scope
         THEN /\ stack' = Append(stack, Frame("seeds_active", TRUE))
              /\ UNCHANGED <<_active, _seed_vars, _current_rel_varray,
                             _current_rel_sarray>>
              /\ maps_unchanged
         ELSE /\ stack' = Append(stack, Frame("seeds_active", FALSE))
              /\ _active' = "True"
              /\ \E st \in {_set_seeds(EngineState, LiveExtra, _single_seed2relvars,
                                        _single_seed2relsys,
                                        seeds_or_all(fwd, _all_seed_vars.fwd),
                                        seeds_or_all(rev, _all_seed_vars.rev))} :
                    Becomes(st)
    /\ constants_unchanged

\* with rel.activate_nonlinear(name, active):
activate_nonlinear_enter(name, b) ==
    /\ CanEnter
    /\ IF ~b \/ _active = "False" \/ name \notin DOMAIN _nonlinear_sets
         THEN /\ stack' = Append(stack, Frame("activate_nonlinear", TRUE))
              /\ UNCHANGED <<_active, _current_rel_sarray>>
         ELSE /\ stack' = Append(stack, Frame("activate_nonlinear", FALSE))
              /\ _active' = "True"
              /\ _current_rel_sarray' = _nonlinear_sets[name]
    /\ UNCHANGED <<_seed_vars, _current_rel_varray>>
    /\ maps_unchanged
    /\ constants_unchanged

\* a finally clause that restores nothing
finally_nothing(fr) == [active |-> _active, seed_vars |-> _seed_vars]

\* What the code after the yield assigns: [active, seed_vars]
finally_clause(fr) ==
    IF fr.noop
      THEN [active |-> _active, seed_vars |-> _seed_vars]
    ELSE IF fr.kind \in {"all_seeds_active", "seeds_active"}
      \* self._seed_vars = save; self._active = save_active
      THEN [active |-> fr.save_active, seed_vars |-> fr.save]
      \* active: self._active = save; activate_nonlinear: self._active = save_active
      ELSE [active |-> fr.save_active, seed_vars |-> _seed_vars]

\* The innermost open context manager is left, normally or (raised) because
\* an exception propagates out of its body: the finally clause is the same.
scope_exit(raised) ==
    /\ pc = "ready"
    /\ stack # <<>>
    /\ LET fr == stack[Len(stack)]
       IN /\ stack' = SubSeq(stack, 1, Len(stack) - 1)
          /\ _active' = finally_clause(fr).active
          /\ _seed_vars' = finally_clause(fr).seed_vars
    /\ UNCHANGED <<_current_rel_varray, _current_rel_sarray>>
    /\ maps_unchanged
    /\ constants_unchanged

(***************************************************************************)
(* Queries                                                                  *)
(***************************************************************************)
\* Relevance.is_relevant(name): "True", "False", or the exception it raises
is_relevant(name) ==
    IF NotActive THEN "True"
    ELSE IF \A i \in DOMAIN _all_vars : _all_vars[i] # name THEN "KeyError"
    ELSE IF _current_rel_varray = NoArray THEN "TypeError"
    ELSE IF _current_rel_varray.c[CHOOSE i \in DOMAIN _all_vars : _all_vars[i] = name]
      THEN "True" ELSE "False"

\* Relevance.is_relevant_system(name)
is_relevant_system(name) ==
    IF NotActive THEN "True"
    ELSE IF \A i \in DOMAIN _all_systems : _all_systems[i] # name THEN "KeyError"
    ELSE IF _current_rel_sarray = NoArray THEN "TypeError"
    ELSE IF _current_rel_sarray.c[CHOOSE i \in DOMAIN _all_systems : _all_systems[i] = name]
      THEN "True" ELSE "False"

(***************************************************************************)
(* The models and metadata the engine is checked on                        *)
(***************************************************************************)
MaxDepth == 3   \* scopes open at the same time

d1x == <<"d1", "x">>
d2x == <<"d2", "x">>
c1a == <<"G", "c1", "a">>
c1y == <<"G", "c1", "y">>
c2a == <<"G", "c2", "a">>
c2b == <<"G", "c2", "b">>
c2y == <<"G", "c2", "y">>
ea == <<"e", "a">>
ey == <<"e", "y">>
v0 == <<"_auto_ivc", "v0">>
v1 == <<"_auto_ivc", "v1">>

\* the nodes of the components comps in the dataflow graph
CompNodes(comps, vs) == comps \cup {v \in vs : Parent(v) \in comps}

\* A model with the given components, variables and connections; on
\* nprocs > 1 processes the components of remote (and their variables) are
\* not local to this one.
TheModel(comps, ins, outs, conns, nprocs, remote, mode, grad_groups, always_opt) ==
    [comps       |-> comps,
     ins         |-> ins,
     outs        |-> outs,
     conns       |-> conns,
     haslocal    |-> CompNodes(comps, ins \cup outs),
     local       |-> CompNodes(comps \ remote, ins \cup outs),
     nprocs      |-> nprocs,
     mode        |-> mode,
     gbpop       |-> TRUE,
     grad_groups |-> grad_groups,
     always_opt  |-> always_opt]

\* every input of a model has a source: the inputs are the targets of conns
Targets(conns) == {c[2] : c \in conns}

\* two independent variable components, two components in a group, and one more
BaseModel(conns, nprocs, remote, mode) ==
    TheModel({<<"d1">>, <<"d2">>, <<"G", "c1">>, <<"G", "c2">>, <<"e">>},
             Targets(conns), {d1x, d2x, c1y, c2y, ey},
             conns, nprocs, remote, mode, {}, {})

\* one independent variable component and _auto_ivc, whose outputs are the
\* sources it gives to the inputs that have no other
IvcModel(conns, grad_groups, always_opt) ==
    TheModel({AutoIVC, <<"d1">>, <<"G", "c1">>, <<"G", "c2">>, <<"e">>},
             Targets(conns),
             {d1x, c1y, c2y, ey} \cup {c[1] : c \in {x \in conns : Parent(x[1]) = AutoIVC}},
             conns, 1, {}, "auto", grad_groups, always_opt)

Meta(src, color) == [source |-> src, parallel_deriv_color |-> color]
Metas(srcs, color) == [i \in DOMAIN srcs |-> Meta(srcs[i], color)]

Config(m, fwd_meta, rev_meta, maxdepth) ==
    [m |-> m, fwd_meta |-> fwd_meta, rev_meta |-> rev_meta, maxdepth |-> maxdepth]

\* one model, with and without seeds of each direction: nested scopes
Configs ==
    {Config(BaseModel({<<d1x, c1a>>, <<d2x, c2a>>, <<c2y, ea>>}, 1, {}, "auto"),
            Metas(sd[1], "None"), Metas(sd[2], "None"), MaxDepth)
     : sd \in {<<<<d1x>>, <<c1y, ey>>>>, <<<<>>, <<ey>>>>, <<<<d1x>>, <<>>>>}}

\* the processes and locality: one process, or two with one remote component
Placements == {[nprocs |-> 1, remote |-> {}],
               [nprocs |-> 2, remote |-> {<<"e">>}]}

\* many dataflow graphs and seed sets, one scope at a time
WideConfigs ==
    {Config(BaseModel({<<s1, c1a>>, <<s2, c2a>>, <<s3, ea>>}, pl.nprocs, pl.remote, "rev"),
            Metas(f, color), Metas(r, "None"), 1)
     : s1 \in {d1x, c2y}, s2 \in {d2x, c1y}, s3 \in {c1y, c2y}, pl \in Placements,
       f \in {<<d1x>>, <<d2x, d1x, d2x>>}, r \in {<<ey>>, <<c1y, ey>>},
       color \in {"None", "red"}}

\* models with _auto_ivc, gradient groups and always_opt components; a
\* design variable is an output of an independent variable component
NLConfigs ==
    {c \in {Config(IvcModel({<<s1, c1a>>, <<s2, c2a>>, <<s3, c2b>>, <<s4, ea>>}, gg, ao),
                   Metas(f, "None"), Metas(r, "None"), 1)
            : s1 \in {v0, d1x}, s2 \in {c1y, v0}, s3 \in {v1, d1x}, s4 \in {c1y, c2y, v1},
              f \in {<<v0>>, <<d1x>>, <<d1x, v0>>}, r \in {<<c2y>>, <<c2y, ey>>},
              gg \in {{}, {<<"G">>}}, ao \in {{}, {<<"e">>}}}
        : SourceSet(c.fwd_meta) \subseteq c.m.outs}

\* two processes and seeds that carry parallel derivative colors
PDConfigs ==
    {Config(BaseModel({<<d1x, c1a>>, <<c1y, c2a>>, <<s3, c2b>>, <<s4, ea>>},
                      2, remote, mode),
            Metas(f, fcolor), Metas(r, rcolor), 1)
     : s3 \in {d1x, d2x}, s4 \in {d1x, c2y}, remote \in {{}, {<<"e">>}},
       mode \in {"fwd", "rev", "auto"},
       f \in {<<d1x, d2x>>, <<d2x, d1x>>}, r \in {<<ey, c1y>>, <<c1y, ey>>, <<ey>>},
       fcolor \in {"None", "red"}, rcolor \in {"None", "blue"}}

\* the arguments the scopes are entered with
SeedArgPairs ==
    {<<NoneArg, NoneArg>>, <<SomeArg({}), NoneArg>>}
    \cup {<<SomeArg({f}), SomeArg({r})>> : f \in _all_seed_vars.fwd, r \in _all_seed_vars.rev}
NonlinearArgs ==
    {<<"pre", TRUE>>, <<"bogus", TRUE>>, <<"pre", FALSE>>}

\* the names the queries are asked about
QueryNames == Range(_all_vars) \cup Range(_all_systems) \cup {<<"nope">>}

InitWith(configs) ==
    /\ cfg \in configs
    /\ pc = "new"
    /\ model_parts = NoParts
    /\ _all_systems = <<>>
    /\ _all_vars = <<>>
    /\ _rel_array_cache = <<>>
    /\ _single_seed2relvars = [fwd |-> <<>>, rev |-> <<>>]
    /\ _single_seed2relsys = [fwd |-> <<>>, rev |-> <<>>]
    /\ _seed_var_map = EmptyMap
    /\ _seed_sys_map = EmptyMap
    /\ _all_seed_vars = [fwd |-> {}, rev |-> {}]
    /\ _seed_vars = [fwd |-> {}, rev |-> {}]
    /\ _active = "None"
    /\ _current_rel_varray = NoArray
    /\ _current_rel_sarray = NoArray
    /\ _nonlinear_sets = <<>>
    /\ _no_dv_responses = <<>>
    /\ pd_errs = <<>>
    /\ stack = <<>>
    /\ mpi = NoMPI
    /\ fd = NoFD
    /\ walk = NoWalk
    /\ heap = NoHeap

vars == <<engine_vars, other_vars>>

Init == InitWith(Configs)

Next ==
    \/ Construct
    \/ \E b \in BOOLEAN : active_enter(b)
    \/ all_seeds_active_enter
    \/ \E a \in SeedArgPairs : seeds_active_enter(a[1], a[2])
    \/ \E a \in NonlinearArgs : activate_nonlinear_enter(a[1], a[2])
    \/ \E raised \in BOOLEAN : scope_exit(raised)

Spec == Init /\ [][Next]_vars

InitWide == InitWith(WideConfigs)
SpecWide == InitWide /\ [][Next]_vars

InitNL == InitWith(NLConfigs)
SpecNL == InitNL /\ [][Next]_vars

InitPD == InitWith(PDConfigs)
SpecPD == InitPD /\ [][Next]_vars

\* models with as many variables as systems: two inputs, five outputs, and
\* five components, one group and the root
SameSizeConfigs ==
    {Config(BaseModel({<<s1, t1>>, <<s2, t2>>}, 1, {}, "auto"),
            Metas(f, "None"), Metas(r, "None"), 1)
     : s1 \in {d1x, d2x}, t1 \in {c1a, c2a}, s2 \in {c1y, c2y, d2x}, t2 \in {c2b, ea},
       f \in {<<d1x>>, <<d2x>>, <<d1x, d2x>>},
       r \in {<<c1y>>, <<ey>>, <<c2y>>, <<c1y, ey>>, <<c2y, ey>>, <<c1y, c2y>>}}

InitSame == InitWith(SameSizeConfigs)
SpecSame == InitSame /\ [][Next]_vars

\* two processes, and a design variable source that is a response source too
SharedSeedConfigs ==
    {Config(BaseModel({<<d1x, c1a>>, <<c1y, c2a>>, <<d2x, c2b>>, <<s4, ea>>},
                      2, remote, mode),
            Metas(f, fcolor), Metas(r, rcolor), 1)
     : s4 \in {d1x, c2y}, remote \in {{}, {<<"e">>}}, mode \in {"fwd", "rev", "auto"},
       f \in {<<d1x>>, <<d1x, d2x>>}, r \in {<<d1x, ey>>, <<d1x, c1y>>, <<ey>>},
       fcolor \in {"None", "red"}, rcolor \in {"None", "blue"}}

InitShared == InitWith(SharedSeedConfigs)
SpecShared == InitShared /\ [][Next]_vars

(***************************************************************************)
(* Relevance._par_deriv_err_check on every worker of the communicator.      *)
(* Worker w is rank w - 1; mpi.remote[w] are the components that are not    *)
(* local to it.  The workers share the model and the metadata and differ    *)
(* in the 'local' attribute of the nodes of their dataflow graph.           *)
(***************************************************************************)
NumWorkers == 2

Workers == 1..NumWorkers

\* the model as worker w sees it
WorkerModel(w) ==
    [cfg.m EXCEPT !.local = CompNodes(cfg.m.comps \ mpi.remote[w],
                                      cfg.m.ins \cup cfg.m.outs)]

\* msg: for errdct in all_errs: for color, names in errdct.items(): one line
overlap_msg(all_errs, mode) ==
    [r \in DOMAIN all_errs |->
        {[color |-> c,
          vtype |-> IF mode = "fwd" THEN "design variable" ELSE "response",
          names |-> all_errs[r][c]] : c \in DOMAIN all_errs[r]}]

\* if msg:
has_msg(msg) == \E r \in DOMAIN msg : msg[r] # {}

\* a worker that enters the allgather only when it has errs of its own
enters_allgather_with_errs(errs) == errs # <<>>

\* all_errs = group.comm.allgather(errs): every worker that runs the check
enters_allgather(errs) == TRUE

\* _set_all_seeds of worker w up to the allgather of _par_deriv_err_check
par_deriv_err_check_gather(w) ==
    /\ w \in DOMAIN mpi.pc
    /\ mpi.pc[w] = "new"
    /\ IF cfg.fwd_meta # <<>> /\ cfg.rev_meta # <<>>
          /\ has_par_derivs(WorkerModel(w), cfg.fwd_meta, cfg.rev_meta)
         THEN \E m \in {WorkerModel(w)} :
              \E df \in DepChoices(m, cfg.fwd_meta, "fwd") :
              \E dr \in DepChoices(m, cfg.rev_meta, "rev") :
              \E forder \in Perms(SourceSet(cfg.fwd_meta)) :
              \E rorder \in Perms(SourceSet(cfg.rev_meta)) :
              \E errs \in {ConstructErrs(m, cfg.fwd_meta, cfg.rev_meta,
                                         [fwd |-> df, rev |-> dr], forder, rorder)} :
                IF enters_allgather(errs)
                  THEN mpi' = [mpi EXCEPT !.pc[w] = "allgather",
                                          !.sent[w] = errs,
                                          !.gathers[w] = @ + 1]
                  ELSE mpi' = [mpi EXCEPT !.pc[w] = "done"]
         ELSE mpi' = [mpi EXCEPT !.pc[w] = "done"]
    /\ UNCHANGED <<engine_vars, fd, walk, heap>>

\* the allgather returns on worker w once every worker has entered it; the
\* worker builds msg and raises RuntimeError when it is not empty
par_deriv_err_check_raise(w) ==
    /\ w \in DOMAIN mpi.pc
    /\ mpi.pc[w] = "allgather"
    /\ \A v \in DOMAIN mpi.pc : mpi.gathers[v] >= 1
    /\ \E msg \in {overlap_msg(mpi.sent, cfg.m.mode)} :
         mpi' = [mpi EXCEPT !.msg[w] = msg,
                            !.pc[w] = IF has_msg(msg) THEN "raised" ELSE "done"]
    /\ UNCHANGED <<engine_vars, fd, walk, heap>>

\* the components a worker can lack
RemoteChoices == {{}, {<<"d2">>}, {<<"e">>}}

MPIConfigs ==
    {Config(BaseModel({<<d1x, c1a>>, <<c1y, c2a>>, <<d2x, c2b>>, <<s4, ea>>},
                      NumWorkers, {}, mode),
            Metas(<<d1x, d2x>>, fcolor), Metas(r, rcolor), 1)
     : s4 \in {d1x, c2y}, mode \in {"fwd", "rev", "auto"},
       r \in {<<ey, c1y>>, <<ey>>},
       fcolor \in {"None", "red"}, rcolor \in {"None", "blue"}}

InitMPI ==
    /\ cfg \in MPIConfigs
    /\ pc = "new"
    /\ model_parts = NoParts
    /\ _all_systems = <<>>
    /\ _all_vars = <<>>
    /\ _rel_array_cache = <<>>
    /\ _single_seed2relvars = [fwd |-> <<>>, rev |-> <<>>]
    /\ _single_seed2relsys = [fwd |-> <<>>, rev |-> <<>>]
    /\ _seed_var_map = EmptyMap
    /\ _seed_sys_map = EmptyMap
    /\ _all_seed_vars = [fwd |-> {}, rev |-> {}]
    /\ _seed_vars = [fwd |-> {}, rev |-> {}]
    /\ _active = "None"
    /\ _current_rel_varray = NoArray
    /\ _current_rel_sarray = NoArray
    /\ _nonlinear_sets = <<>>
    /\ _no_dv_responses = <<>>
    /\ pd_errs = <<>>
    /\ stack = <<>>
    /\ \E remote \in [Workers -> RemoteChoices] :
         mpi = [remote  |-> remote,
                pc      |-> [w \in Workers |-> "new"],
                sent    |-> [w \in Workers |-> <<>>],
                gathers |-> [w \in Workers |-> 0],
                msg     |-> [w \in Workers |-> <<>>]]
    /\ fd = NoFD
    /\ walk = NoWalk
    /\ heap = NoHeap

NextMPI ==
    \/ \E w \in Workers : par_deriv_err_check_gather(w)
    \/ \E w \in Workers : par_deriv_err_check_raise(w)

SpecMPI == InitMPI /\ [][NextMPI]_vars

(***************************************************************************)
(* ApproximationScheme.  A request is (key, options): key is <<of, wrt>>    *)
(* and options is a dict.  Dicts are objects: the scheme's heap dicts holds *)
(* them and a request names its dict by the index in the heap.  A dict is   *)
(*   step, directional   the options the grouping key is made of            *)
(*   coloring            "absent" when the dict has no 'coloring' key,      *)
(*                       "None", or "coloring" for a Coloring object         *)
(*   approxs             the list under 'approxs' (<<>> when there is none) *)
(***************************************************************************)
NoName == "None"            \* None in a key
NoneKey == <<NoName, NoName>>

Options(step, directional, coloring) ==
    [step |-> step, directional |-> directional, coloring |-> coloring, approxs |-> <<>>]

Request(key, options) == [key |-> key, options |-> options]

VarSize == 2        \* abs2meta[wrt]['size'] of every wrt
NumColors == 2      \* column groups of a coloring, at most

\* ApproximationScheme.__init__; color_groups is the number of column groups
\* that the coloring of the system yields (coloring.color_nonzero_iter)
NewScheme ==
    [pc |-> "setup", dicts |-> <<>>, _exec_list |-> <<>>, _approx_groups |-> <<>>,
     approx_groups |-> <<>>, grouped |-> FALSE, color_groups |-> NumColors]

\* the dict itself, not a copy of it
options_alias(dicts, id) == [dicts |-> dicts, id |-> id]

\* options = options.copy(): [dicts, id]
options_copy(dicts, id) == [dicts |-> Append(dicts, dicts[id]), id |-> Len(dicts) + 1]

\* wrt_matches = system._coloring_info['wrt_matches']; None counts as set()
WrtMatches(info) == IF info.none THEN {} ELSE info.names

\* key[0] is not None and (key[1] in wrt_matches or 'coloring' in options)
MatchesColoring(dicts, tup, wrt_matches) ==
    /\ tup.key[1] # NoName
    /\ (tup.key[2] \in wrt_matches \/ dicts[tup.options].coloring # "absent")

RECURSIVE update_coloring_loop(_, _, _, _, _)
\* for tup in self._exec_list: ...
\* acc is [dicts, new_list, new_entry, colored]; new_entry is 0 for None
update_coloring_loop(exec_list, i, wrt_matches, coloring, acc) ==
    IF i > Len(exec_list) THEN acc
    ELSE Bind(exec_list[i], LAMBDA tup :
         Bind(IF ~MatchesColoring(acc.dicts, tup, wrt_matches)
                THEN acc
              ELSE IF coloring = "None"
                THEN [acc EXCEPT !.colored = @ \cup {tup.key},
                                 !.new_list = Append(@, tup)]
              ELSE IF acc.new_entry = 0
                THEN Bind(options_copy(acc.dicts, tup.options), LAMBDA c :
                       [dicts     |-> [c.dicts EXCEPT ![c.id].coloring = coloring,
                                                      ![c.id].approxs = <<tup>>],
                        new_list  |-> Append(acc.new_list, Request(NoneKey, c.id)),
                        new_entry |-> c.id,
                        colored   |-> acc.colored \cup {tup.key}])
                ELSE [acc EXCEPT !.colored = @ \cup {tup.key},
                                 !.dicts[acc.new_entry].approxs = Append(@, tup)],
              LAMBDA acc1 :
                update_coloring_loop(exec_list, i + 1, wrt_matches, coloring, acc1)))

\* ApproximationScheme._update_coloring on the scheme S
_update_coloring(S, info, coloring) ==
    Bind(update_coloring_loop(S._exec_list, 1, WrtMatches(info), coloring,
                              [dicts |-> S.dicts, new_list |-> <<>>, new_entry |-> 0,
                               colored |-> {}]),
         LAMBDA r :
           IF r.colored # {}
             THEN [S EXCEPT !.dicts = r.dicts,
                            !._exec_list =
                                r.new_list \o SelectSeq(S._exec_list,
                                                        LAMBDA tup : tup.key \notin r.colored),
                            !._approx_groups = <<>>,
                            !.grouped = FALSE]
             ELSE [S EXCEPT !.dicts = r.dicts])

(***************************************************************************)
(* ApproximationScheme._init_approximations                                 *)
(***************************************************************************)
ColorKey == "@color"
\* the order of the names that occur as the first item of a grouping key
WrtOrder == <<ColorKey, "x", "y">>
\* the outputs in the order of the output vector (abs2idx)
OfOrder == <<"f", "g">>

Rank(order, name) == CHOOSE i \in DOMAIN order : order[i] = name

\* the grouping key of a request: the wrt name, or '@color' for a request
\* that carries a coloring, then the options the step depends on
_key_fun(dicts, tup) ==
    LET options == dicts[tup.options]
    IN <<IF options.coloring = "coloring" THEN ColorKey ELSE tup.key[2],
         options.step, options.directional>>

\* a < b for two grouping keys, as tuples compare
KeyLess(a, b) ==
    \/ Rank(WrtOrder, a[1]) < Rank(WrtOrder, b[1])
    \/ /\ a[1] = b[1]
       /\ \/ a[2] < b[2]
          \/ a[2] = b[2] /\ ~a[3] /\ b[3]

RECURSIVE sort(_, _)
\* list.sort(key=...): stable, an item goes behind the items that are not
\* greater than it
sort(dicts, list) ==
    IF list = <<>> THEN <<>>
    ELSE Bind(sort(dicts, SubSeq(list, 1, Len(list) - 1)), LAMBDA front :
         Bind(list[Len(list)], LAMBDA tup :
           LET k == _key_fun(dicts, tup)
               n == Cardinality({i \in DOMAIN front : ~KeyLess(k, _key_fun(dicts, front[i]))})
           IN SubSeq(front, 1, n) \o <<tup>> \o SubSeq(front, n + 1, Len(front))))

\* the list as it is: no sort before the grouping
unsorted(dicts, list) == list

\* self._exec_list.sort(key=self._key_fun)
sorted_exec_list(dicts, list) == sort(dicts, list)

RECURSIVE groupby(_, _, _)
\* itertools.groupby: groups adjacent items of equal key; acc is the list
\* of (key, approx) built so far
groupby(dicts, list, acc) ==
    IF list = <<>> THEN acc
    ELSE Bind(Head(list), LAMBDA tup :
         Bind(_key_fun(dicts, tup), LAMBDA k :
         Bind(IF acc # <<>> /\ acc[Len(acc)].key = k
                THEN [acc EXCEPT ![Len(acc)].approx = Append(@, tup)]
                ELSE Append(acc, [key |-> k, approx |-> <<tup>>]),
              LAMBDA acc1 : groupby(dicts, Tail(list), acc1))))

\* the entries of self._approx_groups for one (key, approx)
approx_group_entries(dicts, color_groups, g) ==
    IF g.key[1] = ColorKey
      THEN \* one entry for each column group of the coloring
           [c \in 1..color_groups |->
               [wrt |-> NoName, data |-> g.key, col_idxs |-> <<c>>,
                approxs |-> dicts[g.approx[1].options].approxs, ofs |-> <<>>]]
      ELSE LET in_idx == [i \in 1..VarSize |-> i - 1]
               ofs == {a.key[1] : a \in Range(g.approx)}
           IN <<[wrt |-> g.key[1], data |-> g.key,
                 col_idxs |-> IF g.key[3] THEN <<in_idx>> ELSE in_idx,
                 approxs |-> <<>>,
                 ofs |-> SelectSeq(OfOrder, LAMBDA n : n \in ofs)]>>

RECURSIVE Flatten(_)
Flatten(ss) == IF ss = <<>> THEN <<>> ELSE Head(ss) \o Flatten(Tail(ss))

\* ApproximationScheme._init_approximations on the scheme S
_init_approximations(S) ==
    Bind(sorted_exec_list(S.dicts, S._exec_list), LAMBDA list :
    Bind(groupby(S.dicts, list, <<>>), LAMBDA groups :
      [S EXCEPT !._exec_list = list,
                !.approx_groups = groups,
                !._approx_groups =
                    Flatten([i \in DOMAIN groups |-> approx_group_entries(S.dicts, S.color_groups, groups[i])]),
                !.grouped = TRUE]))

(***************************************************************************)
(* The life of one scheme: it is created, the requests are registered, the  *)
(* coloring is applied (again whenever the coloring changes) and the groups *)
(* are built when they are asked for.                                       *)
(***************************************************************************)
MaxRequests == 3    \* requests registered with one scheme

OptionChoices == {Options(1, FALSE, "absent"), Options(2, FALSE, "absent"),
                  Options(1, FALSE, "None")}
KeyChoices == {<<"f", "x">>, <<"g", "x">>, <<"f", "y">>}
InfoChoices == {[none |-> TRUE, names |-> {}], [none |-> FALSE, names |-> {"x"}],
                [none |-> FALSE, names |-> {"x", "y"}]}
ColoringChoices == {"None", "coloring"}

scheme_unchanged == UNCHANGED <<engine_vars, mpi, walk, heap>>

ApproximationScheme__init__ ==
    /\ fd = NoFD
    /\ fd' = NewScheme
    /\ scheme_unchanged

\* a concrete scheme appends (key, options) to the request list
add_approximation(abs_key, kwargs) ==
    /\ fd.pc = "setup"
    /\ Len(fd._exec_list) < MaxRequests
    /\ fd' = [fd EXCEPT !.dicts = Append(@, kwargs),
                        !._exec_list = Append(@, Request(abs_key, Len(fd.dicts) + 1))]
    /\ scheme_unchanged

update_coloring(info, coloring) ==
    /\ fd.pc \in {"setup", "colored"}
    /\ fd' = [_update_coloring(fd, info, coloring) EXCEPT !.pc = "colored"]
    /\ scheme_unchanged

\* _get_approx_groups: the groups are built when self._approx_groups is None
get_approx_groups ==
    /\ fd.pc \in {"setup", "colored"}
    /\ ~fd.grouped
    /\ fd' = [_init_approximations(fd) EXCEPT !.pc = "colored"]
    /\ scheme_unchanged

InitFD == InitWith({CHOOSE c \in Configs : TRUE})

NextFD ==
    \/ ApproximationScheme__init__
    \/ \E abs_key \in KeyChoices : \E kwargs \in OptionChoices :
           add_approximation(abs_key, kwargs)
    \/ \E info \in InfoChoices : \E coloring \in ColoringChoices :
           update_coloring(info, coloring)
    \/ get_approx_groups

SpecFD == InitFD /\ [][NextFD]_vars

(***************************************************************************)
(* ApproximationScheme._compute_approximations on the processes of one run. *)
(* par is what the system tells a process:                                  *)
(*   full_size    the size of the communicator the system was given         *)
(*   _num_par_fd  system._num_par_fd                                        *)
(* With parallel FD the communicator is split into _num_par_fd blocks of    *)
(* equal size; a process is named by its rank in the full communicator.     *)
(* Every process holds the same scheme.                                     *)
(***************************************************************************)
use_parallel_fd(par) == par._num_par_fd > 1 /\ par.full_size > 1
par_fd_w_serial_model(par) == use_parallel_fd(par) /\ par._num_par_fd = par.full_size
num_par_fd(par) == IF use_parallel_fd(par) THEN par._num_par_fd ELSE 1
\* system.comm.size
comm_size(par) == par.full_size \div num_par_fd(par)
is_parallel(par) == use_parallel_fd(par) \/ comm_size(par) > 1

\* system._par_fd_id and system.comm.rank of the process of rank r
_par_fd_id(par, r) == r \div comm_size(par)

\* every process runs every probe
every_probe(par, r, fd_count) == TRUE

\* lines 311 and 348: the process runs the probe numbered fd_count
runs_probe(par, r, fd_count) == fd_count % num_par_fd(par) = _par_fd_id(par, r)
iproc(par, r) == r % comm_size(par)
\* system._owning_rank: the first output is owned by the first process of
\* system.comm, the other ones by the last
owns(par, of) == IF of = OfOrder[1] THEN 0 ELSE comm_size(par) - 1

\* the result of the run with the i_count-th column of wrt perturbed
\* (_run_point, _transform_result), for the rows of one output
ProbeResult(of, wrt, i_count) == <<of, wrt, i_count>>

\* np.zeros: a column of a new block
Zero == <<>>
ZeroBlock(entry) == [i \in 0..(Len(entry.col_idxs) - 1) |-> Zero]

\* the probe the loop has come to: its number fd_count, the column it
\* perturbs (for a colored group the column group), and whether the process
\* runs it
Probe(fd_count, wrt, col, mine) == [k |-> fd_count, wrt |-> wrt, col |-> col, ran |-> mine]

\* what a process holds when it enters the loop over the groups
ComputeStart ==
    [fd_count |-> 0, colored_shape |-> FALSE, jdata |-> {}, results |-> <<>>,
     J |-> <<>>, probes |-> <<>>, raised |-> FALSE]

\* results[(of, wrt)].append((i_count, result)) for the outputs the process owns
AppendResults(results, par, r, entry, i_count) ==
    LET mine == {of \in Range(entry.ofs) : owns(par, of) = iproc(par, r)}
        keys == {<<of, entry.wrt>> : of \in mine}
        old(key) == IF key \in DOMAIN results THEN results[key] ELSE <<>>
    IN [key \in keys |->
            Append(old(key), <<i_count, ProbeResult(key[1], key[2], i_count)>>)] @@ results

\* J['data'][:, i_count] = result: the column of the block of every output
SetColumn(J, entry, i_count) ==
    [key \in {<<of, entry.wrt>> : of \in Range(entry.ofs)} |->
        [J[key] EXCEPT ![i_count] = ProbeResult(key[1], key[2], i_count)]] @@ J

RECURSIVE compute_columns(_, _, _, _, _)
\* for i_count, idxs in enumerate(col_idxs): ...
compute_columns(par, r, entry, i_count, acc) ==
    IF i_count >= Len(entry.col_idxs) THEN acc
    ELSE Bind(runs_probe(par, r, acc.fd_count), LAMBDA mine :
         Bind([acc EXCEPT
                 !.results = IF mine /\ is_parallel(par)
                               THEN AppendResults(@, par, r, entry, i_count) ELSE @,
                 !.J = IF mine /\ ~is_parallel(par)
                         THEN SetColumn(@, entry, i_count) ELSE @,
                 !.probes = Append(@, Probe(acc.fd_count, entry.wrt, i_count, mine)),
                 !.fd_count = @ + 1],
              LAMBDA acc1 : compute_columns(par, r, entry, i_count + 1, acc1)))

\* colored_shape is set by the processes that run the probe of the group
shape_of_own_probe(mine) == mine

\* line 309: colored_shape is set in every process that meets a colored
\* group, before the test of line 311
sets_colored_shape(mine) == TRUE

RECURSIVE compute_groups(_, _, _, _, _)
\* for wrt, data, col_idxs, tmpJ, idx_info, nz_rows in approx_groups: ...
compute_groups(par, r, groups, g, acc) ==
    IF g > Len(groups) \/ acc.raised THEN acc
    ELSE Bind(groups[g], LAMBDA entry :
         Bind(runs_probe(par, r, acc.fd_count), LAMBDA mine :
         Bind(IF entry.wrt = NoName
                THEN \* colored
                     IF mine /\ ~(par_fd_w_serial_model(par) \/ ~is_parallel(par))
                       THEN [acc EXCEPT !.colored_shape = @ \/ sets_colored_shape(mine),
                                        !.probes = Append(@, Probe(acc.fd_count, NoName,
                                                                   entry.col_idxs[1], mine)),
                                        !.raised = TRUE]
                       ELSE [acc EXCEPT !.colored_shape = @ \/ sets_colored_shape(mine),
                                        !.jdata = IF mine THEN @ \cup {entry.col_idxs}
                                                          ELSE @,
                                        !.probes = Append(@, Probe(acc.fd_count, NoName,
                                                                   entry.col_idxs[1], mine)),
                                        !.fd_count = @ + 1]
                ELSE \* uncolored
                     compute_columns(par, r, entry, 0,
                         [acc EXCEPT !.J =
                             [key \in {<<of, entry.wrt>> : of \in Range(entry.ofs)}
                                 |-> ZeroBlock(entry)] @@ @]),
              LAMBDA acc1 : compute_groups(par, r, groups, g + 1, acc1))))

\* the colored rows, columns and data are gathered whatever the model is
anywhere(par) == TRUE

\* line 367: the colored rows, columns and data are gathered when every
\* parallel-FD worker holds a serial model
colored_allgather(par) == par_fd_w_serial_model(par)

\* lines 365-389: where the process goes after the loop
after_loop(par, acc) ==
    IF acc.raised THEN "raised"                        \* line 338
    ELSE IF acc.colored_shape
      THEN IF colored_allgather(par) THEN "allgather_colored"
           ELSE IF is_parallel(par) THEN "raised"      \* line 378
           ELSE "assign"
    ELSE IF is_parallel(par) THEN "allgather_results"
    ELSE "assign"

RECURSIVE extend_results(_, _, _)
\* _gather_jac_results: the lists of the processes, in the order of the ranks
extend_results(all_results, p, new_results) ==
    IF p > Len(all_results) THEN new_results
    ELSE LET proc_results == all_results[p]
             old(key) == IF key \in DOMAIN new_results THEN new_results[key] ELSE <<>>
         IN Bind([key \in DOMAIN proc_results |-> old(key) \o proc_results[key]]
                     @@ new_results,
                 LAMBDA nr : extend_results(all_results, p + 1, nr))

_gather_jac_results(all_results) == extend_results(all_results, 1, <<>>)

RECURSIVE set_columns(_, _, _)
\* for i, result in results[key]: oview[:, i] = result
set_columns(oview, list, n) ==
    IF n > Len(list) THEN oview
    ELSE Bind([oview EXCEPT ![list[n][1]] = list[n][2]], LAMBDA o :
              set_columns(o, list, n + 1))

RECURSIVE assign_groups(_, _, _, _, _, _)
\* lines 391-418: jac[key] = ... for the keys of every group; Jcolored is
\* the set of column groups the colored matrix was built of
assign_groups(par, groups, g, acc, Jcolored, jac) ==
    IF g > Len(groups) THEN jac
    ELSE Bind(groups[g], LAMBDA entry :
         Bind(IF entry.wrt = NoName
                THEN [key \in {a.key : a \in Range(entry.approxs)} |->
                         [colored |-> Jcolored]] @@ jac
                ELSE [key \in {<<of, entry.wrt>> : of \in Range(entry.ofs)} |->
                         IF is_parallel(par) /\ key \in DOMAIN acc.results
                           THEN set_columns(acc.J[key], acc.results[key], 1)
                           ELSE acc.J[key]] @@ jac,
              LAMBDA jac1 : assign_groups(par, groups, g + 1, acc, Jcolored, jac1)))

Procs == 0..(fd.par.full_size - 1)

\* the loop over the groups and what follows it up to the all-gather, the
\* raise or the end of the call
compute_loop(r) ==
    /\ fd.pc = "compute"
    /\ r \in Procs
    /\ fd.proc[r].pc = "start"
    /\ \E acc \in {compute_groups(fd.par, r, fd.scheme._approx_groups, 1, ComputeStart)} :
       \E next \in {after_loop(fd.par, acc)} :
         fd' = [fd EXCEPT !.proc[r] =
                  [pc |-> IF next = "assign" THEN "done" ELSE next,
                   acc |-> acc,
                   gathers |-> IF next \in {"allgather_colored", "allgather_results"}
                                 THEN 1 ELSE 0,
                   \* the collective calls the process has issued on mycomm
                   calls |-> IF next \in {"allgather_colored", "allgather_results"}
                               THEN <<next>> ELSE <<>>,
                   jac |-> IF next = "assign"
                             THEN assign_groups(fd.par, fd.scheme._approx_groups, 1, acc,
                                                acc.jdata, <<>>)
                             ELSE <<>>]]
    /\ scheme_unchanged

\* the all-gather returns when every process of mycomm has entered it; the
\* process then assigns the blocks
compute_gathered(r) ==
    /\ fd.pc = "compute"
    /\ r \in Procs
    /\ fd.proc[r].pc \in {"allgather_colored", "allgather_results"}
    /\ \A v \in Procs : fd.proc[v].gathers = 1
    /\ LET me == fd.proc[r]
           Jcolored == UNION {fd.proc[v].acc.jdata : v \in Procs}
           results == IF me.pc = "allgather_results"
                        THEN _gather_jac_results(
                                 [p \in 1..fd.par.full_size |-> fd.proc[p - 1].acc.results])
                        ELSE me.acc.results
       IN fd' = [fd EXCEPT !.proc[r].pc = "done",
                           !.proc[r].jac =
                               assign_groups(fd.par, fd.scheme._approx_groups, 1,
                                             [me.acc EXCEPT !.results = results],
                                             Jcolored, <<>>)]
    /\ scheme_unchanged

MaxProcs == 4       \* processes of a run

\* one process, and the communicators that split into blocks of equal size
ParChoices ==
    {par \in [full_size : 1..MaxProcs, _num_par_fd : 1..MaxProcs] :
        \/ par.full_size % par._num_par_fd = 0
        \/ par.full_size = 1 /\ par._num_par_fd = 2}

RECURSIVE Registered(_, _)
\* the scheme after add_approximation for every (key, kwargs) of list
Registered(S, list) ==
    IF list = <<>> THEN S
    ELSE Bind([S EXCEPT !.dicts = Append(@, Head(list)[2]),
                        !._exec_list = Append(@, Request(Head(list)[1], Len(S.dicts) + 1))],
              LAMBDA S1 : Registered(S1, Tail(list)))

\* requests on two inputs: two outputs depend on x and one on y (taken one
\* column at a time, or as one direction); no coloring, a coloring of the
\* columns of x, or a coloring of all columns
ComputeSchemes ==
    {_init_approximations(S) :
        S \in UNION {{R, _update_coloring(R, [none |-> FALSE, names |-> {"x"}], "coloring"),
                      _update_coloring(R, [none |-> FALSE, names |-> {"x", "y"}], "coloring")}
                     : R \in {Registered([NewScheme EXCEPT !.color_groups = n],
                                         <<<<<<"f", "x">>, Options(1, FALSE, "absent")>>,
                                           <<<<"f", "y">>, Options(1, d, "absent")>>,
                                           <<<<"g", "x">>, Options(1, FALSE, "absent")>>>>)
                              : d \in BOOLEAN, n \in 1..NumColors}}}

\* _compute_approximations is called on every process of the run
compute_approximations(scheme, par) ==
    /\ fd = NoFD
    /\ fd' = [pc |-> "compute", scheme |-> scheme, par |-> par,
              proc |-> [r \in 0..(par.full_size - 1) |->
                           [pc |-> "start", acc |-> ComputeStart, gathers |-> 0, calls |-> <<>>,
                            jac |-> <<>>]]]
    /\ scheme_unchanged

NextPar ==
    \/ \E scheme \in ComputeSchemes : \E par \in ParChoices :
           compute_approximations(scheme, par)
    \/ \E r \in 0..(MaxProcs - 1) : compute_loop(r)
    \/ \E r \in 0..(MaxProcs - 1) : compute_gathered(r)

SpecPar == InitFD /\ [][NextPar]_vars

\* Every process runs its own call: one that can leave the loop does, and
\* the all-gather returns in a process once every process has entered it.
ParFairness ==
    \A r \in 0..(MaxProcs - 1) :
        WF_vars(compute_loop(r)) /\ WF_vars(compute_gathered(r))

SpecParLive == InitFD /\ [][NextPar]_vars /\ ParFairness

(***************************************************************************)
(* _from_dense: the conversion of a dense block to the form of the subjac  *)
(* stored in the Jacobian                                                   *)
(***************************************************************************)
DenseDim == 2       \* rows and columns of a dense block
DenseIdx == 0..(DenseDim - 1)

\* the names the module binds at import time (lines 3-12) that _from_dense
\* looks up
ModuleNames == {"iteritems", "groupby", "defaultdict", "OrderedDict", "coo_matrix",
                "np", "sub2full_indices", "update_sizes", "get_input_idx_split",
                "rel_name2abs_name", "printoptions", "Jacobian"}

\* _full_slice and an index array
_full_slice == [full |-> TRUE, idx |-> <<>>]
IndexArray(idx) == [full |-> FALSE, idx |-> idx]

\* what a call gives back: a value, or the exception it raises
Returned(value) == [raises |-> "None", value |-> value]
Raised(exception) == [raises |-> exception, value |-> <<>>]

\* subjac[rows, cols] with two index arrays: the entries at the paired indices
Take(subjac, rows, cols) == [k \in DOMAIN rows |-> subjac[<<rows[k], cols[k]>>]]

\* coo_matrix(arg1): the arguments in the order the call passes them
coo_matrix(arg1) == [format |-> "coo", arg1 |-> arg1]
tocsc(m) == [m EXCEPT !.format = "csc"]
tocsr(m) == [m EXCEPT !.format = "csr"]

\* isinstance(val, <name>) for a name of the module's globals: the test, or
\* NameError when the module does not bind the name
isinstance(val, module_names, name, type) ==
    IF name \notin module_names THEN Raised("NameError")
    ELSE Returned(val.type = type)

\* the module binding every name _from_dense looks up
AllNames == ModuleNames \cup {"csc_matrix", "csr_matrix"}

\* lines 434-456 when jac is not None
from_dense_jac(module_names, meta, subjac, reduced_rows, reduced_cols) ==
    LET val == meta.value
        is_coo == isinstance(val, module_names, "coo_matrix", "coo_matrix")
        is_csc == isinstance(val, module_names, "csc_matrix", "csc_matrix")
        is_csr == isinstance(val, module_names, "csr_matrix", "csr_matrix")
        sparse == coo_matrix(<<<<val.row, val.col>>, Take(subjac, val.row, val.col)>>)
    IN IF meta.rows # <<>>
         THEN IF reduced_rows # _full_slice \/ reduced_cols # _full_slice
                THEN Returned(Take(subjac, reduced_rows.idx, reduced_cols.idx))
                ELSE Returned(Take(subjac, meta.rows[1], meta.cols[1]))
       ELSE IF val.type = "ndarray" THEN Returned(subjac)
       ELSE IF is_coo.raises # "None" THEN is_coo
       ELSE IF is_coo.value THEN Returned(sparse)
       ELSE IF is_csc.raises # "None" THEN is_csc
       ELSE IF is_csc.value THEN Returned(tocsc(sparse))
       ELSE IF is_csr.raises # "None" THEN is_csr
       ELSE IF is_csr.value THEN Returned(tocsr(sparse))
       ELSE Raised("TypeError")

\* jac is None: the derivatives are saved to a dict
NoJac == <<>>

\* _from_dense(jac, key, subjac, reduced_rows, reduced_cols); jac is NoJac
\* or the _subjacs_info of a Jacobian, meta['rows'] and meta['cols'] are <<>>
\* for None and a one-element sequence holding the index array otherwise
_from_dense(jac, key, subjac, reduced_rows, reduced_cols) ==
    IF jac = NoJac THEN Returned(subjac)
    ELSE from_dense_jac(ModuleNames, jac[key], subjac, reduced_rows, reduced_cols)

\* the index patterns of the sparse subjacs: the diagonal, the first row
Patterns == {<<[k \in 1..DenseDim |-> k - 1], [k \in 1..DenseDim |-> k - 1]>>,
             <<[k \in 1..DenseDim |-> 0], [k \in 1..DenseDim |-> k - 1]>>,
             <<<<0>>, <<DenseDim - 1>>>>}

ValueTypes == {"ndarray", "coo_matrix", "csc_matrix", "csr_matrix", "list"}
RecognizedTypes == {"ndarray", "coo_matrix", "csc_matrix", "csr_matrix"}

\* the values a subjac is declared with: an array or a list without index
\* pattern, a scipy matrix with its own
SubjacValues ==
    {[type |-> t, row |-> <<>>, col |-> <<>>] : t \in {"ndarray", "list"}}
    \cup {[type |-> t, row |-> p[1], col |-> p[2]]
          : t \in {"coo_matrix", "csc_matrix", "csr_matrix"}, p \in Patterns}

\* _subjacs_info[key]
SubjacMetas ==
    {[value |-> v, rows |-> <<>>, cols |-> <<>>] : v \in SubjacValues}
    \cup {[value |-> [type |-> "ndarray", row |-> <<>>, col |-> <<>>],
           rows |-> <<p[1]>>, cols |-> <<p[2]>>] : p \in Patterns}

\* dense blocks with entries that are all different
DenseBlocks == {[ij \in DenseIdx \X DenseIdx |-> b + DenseDim * ij[1] + ij[2]]
                : b \in {0, 10}}

\* rows_reduced, cols_reduced of _get_wrt_subjacs (lines 535-545)
ReducedChoices ==
    {<<_full_slice, _full_slice>>}
    \cup {<<IndexArray(p[1]), IndexArray(p[2])>> : p \in Patterns}

\* one call of _from_dense from the assignment loop of _compute_approximations
from_dense(jac, key, subjac, reduced) ==
    /\ fd.pc \in {"none", "from_dense"}
    /\ fd' = [pc |-> "from_dense", jac |-> jac, key |-> key, subjac |-> subjac,
              reduced |-> reduced,
              out |-> _from_dense(jac, key, subjac, reduced[1], reduced[2])]
    /\ scheme_unchanged

\* the Jacobians: None (a dict receives the result) or one subjac for the key
JacChoices(key) == {NoJac} \cup {[k \in {key} |-> meta] : meta \in SubjacMetas}

NextDense ==
    \E key \in KeyChoices : \E jac \in JacChoices(key) :
    \E subjac \in DenseBlocks : \E reduced \in ReducedChoices :
        from_dense(jac, key, subjac, reduced)

SpecDense == InitFD /\ [][NextDense]_vars

(***************************************************************************)
(* _compute_approximations on one process, with numbers: the system is a   *)
(* linear model with an integer Jacobian A, a probe returns the change of   *)
(* the outputs, and a value is kept as a numerator and the product of the  *)
(* steps it was divided by.                                                 *)
(***************************************************************************)
\* the sizes of the outputs and their places in the output vector
OfSize(of) == IF of = OfOrder[1] THEN 2 ELSE 1
OfStart(of) == IF of = OfOrder[1] THEN 0 ELSE OfSize(OfOrder[1])
NumRows == OfSize(OfOrder[1]) + OfSize(OfOrder[2])
OfRows(of) == [k \in 1..OfSize(of) |-> OfStart(of) + k - 1]

\* the inputs the derivatives are taken with respect to, in the order of
\* the columns of the full Jacobian
WrtNames == <<"x", "y">>
WrtStart(names, wrt) == (Rank(names, wrt) - 1) * VarSize
NumCols(names) == Len(names) * VarSize

\* a number: num / den
Val(num, den) == [num |-> num, den |-> den]
SameNumber(a, b) == a.num * b.den = b.num * a.den

RECURSIVE SumOver(_, _, _)
\* the sum of A[r, c] over the columns of the sequence cols
SumOver(A, r, cols) ==
    IF cols = <<>> THEN 0 ELSE A[<<r, Head(cols)>>] + SumOver(A, r, Tail(cols))

\* _run_point: the inputs of the columns cols are moved by the step of
\* data and the model is run; the change of every output row
_run_point(A, cols, data) == [r \in 0..(NumRows - 1) |-> data[2] * SumOver(A, r, cols)]

\* _transform_result
_transform_result(array) == array

\* _get_multiplier(data): 1 / step, kept as the step to divide by
_get_multiplier(data) == data[2]

\* array *= mult on every entry of a block
Scaled(block, mult) == [ij \in DOMAIN block |-> Val(block[ij].num, block[ij].den * mult)]

\* the wrts of the coloring, in the order of the columns
MatchedWrts(wrt_matches) == SelectSeq(WrtNames, LAMBDA n : n \in wrt_matches)

\* the columns of one color: every n-th column of the coloring's Jacobian
ColorCols(n, k, ncols) ==
    LET m == (ncols - k + n) \div n
    IN [j \in 1..m |-> (k - 1) + (j - 1) * n]

\* the rows of the j-th of m columns of a color: no row is shared by two
\* columns of the color
ColorRows(j, m) == SelectSeq([r \in 1..NumRows |-> r - 1], LAMBDA r : r % m = j - 1)

\* coloring.color_nonzero_iter('fwd') of a coloring with n colors on the
\* columns of wrt_matches: (cols, nzrows) of every color
color_nonzero_iter(n, wrt_matches) ==
    LET ncols == NumCols(MatchedWrts(wrt_matches))
    IN [k \in 1..n |->
          LET cols == ColorCols(n, k, ncols)
          IN [cols |-> cols,
              nzrows |-> [j \in DOMAIN cols |-> ColorRows(j, Len(cols))]]]

\* sub2full_indices: the column of the full Jacobian for a column of the
\* coloring
col_map(wrt_matches, c) ==
    WrtStart(WrtNames, MatchedWrts(wrt_matches)[(c \div VarSize) + 1]) + (c % VarSize)

\* tmpJ['@jac_slices'][(of, wrt)]: the rows and the columns of the block in
\* the colored matrix
jac_slices(wrt_matches, key) ==
    [rows |-> OfRows(key[1]),
     cols |-> [k \in 1..VarSize |-> WrtStart(MatchedWrts(wrt_matches), key[2]) + k - 1]]

\* M[slc] as a block with indices that start at 0
Slice(M, slc) ==
    [ij \in (0..(Len(slc.rows) - 1)) \X (0..(Len(slc.cols) - 1)) |->
        M[<<slc.rows[ij[1] + 1], slc.cols[ij[2] + 1]>>]]

\* lines 324-336: the rows, columns and data one colored probe appends
\* (nz_rows is not None): for column i of the color the rows nz_rows[i]
ColoredTriplets(cols, nzrows, result) ==
    Flatten([i \in DOMAIN cols |->
                [k \in DOMAIN nzrows[i] |->
                    [row |-> nzrows[i][k], col |-> cols[i],
                     data |-> _transform_result(result)[nzrows[i][k]]]]])

RECURSIVE SumData(_)
SumData(triplets) == IF triplets = <<>> THEN 0 ELSE Head(triplets).data + SumData(Tail(triplets))

\* coo_matrix((jdata, (jrows, jcols)), shape).toarray(): entries at the same
\* place are added
toarray(triplets, wrt_matches) ==
    [ij \in (0..(NumRows - 1)) \X (0..(NumCols(MatchedWrts(wrt_matches)) - 1)) |->
        Val(SumData(SelectSeq(triplets, LAMBDA t : t.row = ij[1] /\ t.col = ij[2])), 1)]

\* np.zeros((tot_rows, ncols)): the staging buffer of one uncolored group
StagingBuffer(entry) ==
    LET rows == Flatten([k \in DOMAIN entry.ofs |-> OfRows(entry.ofs[k])])
    IN [ij \in (0..(Len(rows) - 1)) \X (0..(Len(entry.col_idxs) - 1)) |-> Val(0, 1)]

\* J['loc_outvec_idxs']: the rows of the outputs of the group in the output
\* vector
loc_outvec_idxs(entry) == Flatten([k \in DOMAIN entry.ofs |-> OfRows(entry.ofs[k])])

\* the columns of the full Jacobian that the probe i_count of an uncolored
\* group moves: one, or all of them for a directional group
ProbeCols(entry, i_count) ==
    LET idxs == entry.col_idxs[i_count + 1]
    IN IF entry.data[3]
         THEN [k \in DOMAIN idxs |-> WrtStart(WrtNames, entry.wrt) + idxs[k]]
         ELSE <<WrtStart(WrtNames, entry.wrt) + idxs>>

\* line 361: J['data'][:, i_count] = self._transform_result(result[full_idxs])
SetDataColumn(data, entry, i_count, result) ==
    LET full_idxs == loc_outvec_idxs(entry)
    IN [ij \in DOMAIN data |->
          IF ij[2] = i_count
            THEN Val(_transform_result(result)[full_idxs[ij[1] + 1]], 1)
            ELSE data[ij]]

RECURSIVE serial_columns(_, _, _, _)
\* lines 347-363 on one process: every probe is run
serial_columns(A, entry, i_count, data) ==
    IF i_count >= Len(entry.col_idxs) THEN data
    ELSE Bind(SetDataColumn(data, entry, i_count,
                            _run_point(A, ProbeCols(entry, i_count), entry.data)),
              LAMBDA d : serial_columns(A, entry, i_count + 1, d))

RECURSIVE serial_groups(_, _, _, _, _, _)
\* lines 307-363 on one process; acc is [data, jdata, colored]: the staging
\* buffers by group, the triplets of the colored probes, and whether a
\* colored group was met
serial_groups(A, wrt_matches, colors, groups, g, acc) ==
    IF g > Len(groups) THEN acc
    ELSE Bind(groups[g], LAMBDA entry :
         Bind(IF entry.wrt = NoName
                THEN LET color == colors[entry.col_idxs[1]]
                         ccols == [k \in DOMAIN color.cols |->
                                      col_map(wrt_matches, color.cols[k])]
                         result == _run_point(A, ccols, entry.data)
                     IN [acc EXCEPT !.colored = TRUE,
                                    !.jdata = @ \o ColoredTriplets(color.cols, color.nzrows,
                                                                   result)]
                ELSE [acc EXCEPT !.data[g] = serial_columns(A, entry, 0, @)],
              LAMBDA acc1 : serial_groups(A, wrt_matches, colors, groups, g + 1, acc1)))

\* the rows of one output in the staging buffer of its group
OviewSlice(entry, of) ==
    LET before == SelectSeq(entry.ofs,
                            LAMBDA n : Rank(entry.ofs, n) < Rank(entry.ofs, of))
        start == Len(Flatten([k \in DOMAIN before |-> OfRows(before[k])]))
    IN [rows |-> [k \in 1..OfSize(of) |-> start + k - 1],
        cols |-> [k \in 1..Len(entry.col_idxs) |-> k - 1]]

\* lines 365 and 382-418 on one process: the multiplier of the data the
\* loop ended with scales the colored matrix and every oview, in place, and
\* the blocks are assigned; gives [data, jac]
RECURSIVE serial_assign(_, _, _, _, _, _, _)
serial_assign(wrt_matches, groups, g, mult, Jcolored, data, jac) ==
    IF g > Len(groups) THEN [data |-> data, jac |-> jac]
    ELSE Bind(groups[g], LAMBDA entry :
         IF entry.wrt = NoName
           THEN Bind([key \in {a.key : a \in Range(entry.approxs)} |->
                         Slice(Jcolored, jac_slices(wrt_matches, key))] @@ jac,
                     LAMBDA jac1 : serial_assign(wrt_matches, groups, g + 1, mult,
                                                 Jcolored, data, jac1))
           ELSE Bind(Scaled(data[g], mult), LAMBDA scaled :
                Bind([key \in {<<of, entry.wrt>> : of \in Range(entry.ofs)} |->
                         Slice(scaled, OviewSlice(entry, key[1]))] @@ jac,
                     LAMBDA jac1 : serial_assign(wrt_matches, groups, g + 1, mult,
                                                 Jcolored, [data EXCEPT ![g] = scaled],
                                                 jac1))))

\* _compute_approximations(system, jac, ...) of a scheme on one process:
\* data holds the staging buffers the scheme keeps between the calls
serial_compute_approximations(A, wrt_matches, colors, groups, data) ==
    Bind(serial_groups(A, wrt_matches, colors, groups, 1,
                       [data |-> data, jdata |-> <<>>, colored |-> FALSE]),
         LAMBDA acc :
           LET mult == _get_multiplier(groups[Len(groups)].data)
               Jcolored == IF acc.colored
                             THEN Scaled(toarray(acc.jdata, wrt_matches), mult)
                             ELSE <<>>
           IN serial_assign(wrt_matches, groups, 1, mult, Jcolored, acc.data, <<>>))

\* the staging buffers _init_approximations creates: one for every
\* uncolored group
NewData(groups) ==
    [g \in DOMAIN groups |->
        IF groups[g].wrt = NoName THEN <<>> ELSE StagingBuffer(groups[g])]

\* the Jacobian of the model has no entry outside the rows the coloring
\* gives for the column
SparsityHolds(A, wrt_matches, colors) ==
    \A k \in DOMAIN colors : \A i \in DOMAIN colors[k].cols :
    \A r \in 0..(NumRows - 1) :
        A[<<r, col_map(wrt_matches, colors[k].cols[i])>>] # 0
            => r \in Range(colors[k].nzrows[i])

\* a Jacobian whose entries all differ, and the same one with zeros outside
\* the rows of the coloring
FullJacobian ==
    [rc \in (0..(NumRows - 1)) \X (0..(NumCols(WrtNames) - 1)) |->
        1 + rc[1] * NumCols(WrtNames) + rc[2]]
SparseJacobian(wrt_matches, colors) ==
    [rc \in DOMAIN FullJacobian |->
        IF \E k \in DOMAIN colors : \E i \in DOMAIN colors[k].cols :
              /\ col_map(wrt_matches, colors[k].cols[i]) = rc[2]
              /\ rc[1] \notin Range(colors[k].nzrows[i])
          THEN 0 ELSE FullJacobian[rc]]

StepChoices == {1, 2}
MaxCalls == 2       \* calls of _compute_approximations on one scheme

\* the requests of a system: two outputs depend on x and one on y, each
\* request with its own step
SerialRequests ==
    {<<<<<<"f", "x">>, Options(s1, FALSE, "absent")>>,
       <<<<"f", "y">>, Options(s2, d, "absent")>>,
       <<<<"g", "x">>, Options(s3, FALSE, "absent")>>>>
     : s1 \in StepChoices, s2 \in StepChoices, s3 \in StepChoices, d \in BOOLEAN}

\* a scheme after _init_approximations, with the staging buffers
SerialRun(S) ==
    Bind(_init_approximations(S), LAMBDA S1 :
        [scheme |-> S1, data |-> NewData(S1._approx_groups), jac |-> <<>>, calls |-> 0])

\* one system is approximated twice: by a scheme without coloring and by a
\* scheme the coloring was declared to
serial_setup(list, wrt_matches, n, sparse) ==
    /\ fd = NoFD
    /\ \E colors \in {color_nonzero_iter(n, wrt_matches)} :
       \E R \in {Registered([NewScheme EXCEPT !.color_groups = n], list)} :
         fd' = [pc |-> "serial",
                A |-> IF sparse THEN SparseJacobian(wrt_matches, colors) ELSE FullJacobian,
                wrt_matches |-> wrt_matches,
                colors |-> colors,
                plain |-> SerialRun(R),
                colored |-> SerialRun(_update_coloring(R, [none |-> FALSE,
                                                           names |-> wrt_matches],
                                                       "coloring"))]
    /\ scheme_unchanged

\* _compute_approximations of the scheme without coloring
serial_compute_plain ==
    /\ fd.pc = "serial"
    /\ fd.plain.calls < MaxCalls
    /\ \E out \in {serial_compute_approximations(fd.A, fd.wrt_matches, fd.colors,
                                                 fd.plain.scheme._approx_groups,
                                                 fd.plain.data)} :
         fd' = [fd EXCEPT !.plain.data = out.data, !.plain.jac = out.jac,
                          !.plain.calls = @ + 1]
    /\ scheme_unchanged

\* _compute_approximations of the scheme with the coloring
serial_compute_colored ==
    /\ fd.pc = "serial"
    /\ fd.colored.calls < MaxCalls
    /\ \E out \in {serial_compute_approximations(fd.A, fd.wrt_matches, fd.colors,
                                                 fd.colored.scheme._approx_groups,
                                                 fd.colored.data)} :
         fd' = [fd EXCEPT !.colored.data = out.data, !.colored.jac = out.jac,
                          !.colored.calls = @ + 1]
    /\ scheme_unchanged

NextSerial ==
    \/ \E list \in SerialRequests : \E wrt_matches \in {{"x"}, {"y"}, {"x", "y"}} :
       \E n \in 1..NumColors : \E sparse \in BOOLEAN :
           serial_setup(list, wrt_matches, n, sparse)
    \/ serial_compute_plain
    \/ serial_compute_colored

SpecSerial == InitFD /\ [][NextSerial]_vars

(***************************************************************************)
(* Calls of _dependent_nodes on the graph of an engine                      *)
(***************************************************************************)
\* dataflow graphs in which a node has several successors, on one process
\* and on two with a remote component
WalkConfigs ==
    {c \in WideConfigs : /\ Sources(c.fwd_meta) = <<d1x>>
                         /\ Sources(c.rev_meta) = <<ey>>
                         /\ c.fwd_meta[1].parallel_deriv_color = "None"}

\* the nodes a walk is started at: the nodes of the graph and a name that
\* is no node
StartChoices == DataflowGraph(cfg.m).nodes \cup {<<"nope">>}

\* self._dependent_nodes(start, direction, local)
dependent_nodes(start, direction, local) ==
    /\ pc = "ready"
    /\ \E out \in _dependent_nodes(DataflowGraph(cfg.m), start, direction, local) :
         walk' = [pc |-> "returned", start |-> start, direction |-> direction,
                  local |-> local, out |-> out]
    /\ UNCHANGED <<engine_vars, mpi, fd, heap>>

InitWalk == InitWith(WalkConfigs)

NextWalk ==
    \/ Construct
    \/ \E start \in StartChoices : \E direction \in {"fwd", "rev"} :
       \E local \in BOOLEAN : dependent_nodes(start, direction, local)

SpecWalk == InitWalk /\ [][NextWalk]_vars

(***************************************************************************)
(* The relevance arrays as objects.  heap.objs maps the identity of an      *)
(* array to its content; the cache, the per-seed maps and the seed map hold *)
(* identities, and |= and &= change the content of the object they are      *)
(* applied to.                                                              *)
(***************************************************************************)
CacheLen == 2       \* entries of a relevance array

\* the identity of the next array object
fresh_id(objs) ==
    CHOOSE k \in 0..Cardinality(DOMAIN objs) :
        /\ k \notin DOMAIN objs
        /\ \A j \in 0..(k - 1) : j \in DOMAIN objs

\* a new array object: [objs, id]
alloc(objs, content) ==
    Bind(fresh_id(objs), LAMBDA id : [objs |-> (id :> content) @@ objs, id |-> id])

\* the array itself, not a copy of it
array_alias(objs, id) == [objs |-> objs, id |-> id]

\* arr.copy()
array_copy(objs, id) == alloc(objs, objs[id])

\* array |= arr and farray &= rarray, in place
ior(objs, id, other) == [objs EXCEPT ![id] = content_or(@, objs[other])]
iand(objs, id, other) == [objs EXCEPT ![id] = content_and(@, objs[other])]

RECURSIVE union_loop(_, _, _, _, _)
\* for i, seed in enumerate(seeds): ...; array is -1 before the first seed
union_loop(objs, seed_map, seeds, i, array) ==
    IF i > Len(seeds) THEN [objs |-> objs, id |-> array]
    ELSE IF i = 1
      THEN Bind(array_copy(objs, seed_map[seeds[i]]), LAMBDA c :
                union_loop(c.objs, seed_map, seeds, i + 1, c.id))
      ELSE Bind(ior(objs, array, seed_map[seeds[i]]), LAMBDA o :
                union_loop(o, seed_map, seeds, i + 1, array))

\* Relevance._union_arrays on the objects; seeds in the order of iteration
heap_union_arrays(objs, seed_map, seeds) ==
    IF seeds = <<>> THEN alloc(objs, <<>>)
    ELSE union_loop(objs, seed_map, seeds, 1, -1)

\* Relevance._get_cached_array: [cache, id]
heap_get_cached_array(objs, cache, id) ==
    IF objs[id] \in DOMAIN cache
      THEN [cache |-> cache, id |-> cache[objs[id]]]
      ELSE [cache |-> (objs[id] :> id) @@ cache, id |-> id]

\* Relevance._combine_relevance: [objs, cache, id]
heap_combine_relevance(objs, cache, fmap, fwd_seeds, rmap, rev_seeds) ==
    Bind(heap_union_arrays(objs, fmap, fwd_seeds), LAMBDA farray :
    Bind(heap_union_arrays(farray.objs, rmap, rev_seeds), LAMBDA rarray :
    Bind(iand(rarray.objs, farray.id, rarray.id), LAMBDA objs1 :
    Bind(heap_get_cached_array(objs1, cache, farray.id), LAMBDA r :
         [objs |-> objs1, cache |-> r.cache, id |-> r.id]))))

\* the arrays the engine holds
Referenced(h) ==
    Range(h.cache) \cup Range(h.single.fwd) \cup Range(h.single.rev) \cup Range(h.map)

\* the arrays that nothing refers to any more are collected
collect(h) == [h EXCEPT !.objs = [id \in Referenced(h) |-> h.objs[id]]]

\* self._rel_array_cache = {} and the maps of a new engine
relevance_arrays_init ==
    /\ heap = NoHeap
    /\ heap' = [pc |-> "ready", objs |-> <<>>, cache |-> <<>>,
                single |-> [fwd |-> <<>>, rev |-> <<>>], map |-> <<>>]
    /\ UNCHANGED <<engine_vars, mpi, fd, walk>>

\* _single_seed2relvars[io][seed] = self._names2rel_array(names, ...):
\* a new array of zeros, the entries of the names set, through the cache
names2rel_array(io, seed, content) ==
    /\ heap.pc = "ready"
    /\ seed \notin DOMAIN heap.single[io]
    /\ \E a \in {alloc(heap.objs, content)} :
       \E r \in {heap_get_cached_array(a.objs, heap.cache, a.id)} :
         heap' = collect([heap EXCEPT !.objs = a.objs, !.cache = r.cache,
                                      !.single[io] = (seed :> r.id) @@ @])
    /\ UNCHANGED <<engine_vars, mpi, fd, walk>>

\* self._get_rel_array(seed_map, single_seed2rel, fwd_seeds, rev_seeds); the
\* frozensets are iterated in the orders fwd_seeds and rev_seeds
get_rel_array(fwd_seeds, rev_seeds) ==
    /\ heap.pc = "ready"
    /\ LET key == <<Range(fwd_seeds), Range(rev_seeds)>>
       IN IF key \in DOMAIN heap.map
            THEN UNCHANGED heap
            ELSE \E r \in {heap_combine_relevance(heap.objs, heap.cache,
                                                  heap.single.fwd, fwd_seeds,
                                                  heap.single.rev, rev_seeds)} :
                   heap' = collect([heap EXCEPT !.objs = r.objs, !.cache = r.cache,
                                                !.map = (key :> r.id) @@ @])
    /\ UNCHANGED <<engine_vars, mpi, fd, walk>>

FwdSeedNames == {d1x, d2x}
RevSeedNames == {ey}

NextHeap ==
    \/ relevance_arrays_init
    \/ \E io \in {"fwd", "rev"} :
       \E seed \in IF io = "fwd" THEN FwdSeedNames ELSE RevSeedNames :
       \E content \in [1..CacheLen -> BOOLEAN] : names2rel_array(io, seed, content)
    \/ /\ heap.pc = "ready"
       /\ \E F \in SUBSET DOMAIN heap.single.fwd \ {{}} :
          \E R \in SUBSET DOMAIN heap.single.rev \ {{}} :
          \E fwd_seeds \in Perms(F) : \E rev_seeds \in Perms(R) :
              get_rel_array(fwd_seeds, rev_seeds)

SpecHeap == InitFD /\ [][NextHeap]_vars

(***************************************************************************)
(* Properties                                                               *)
(***************************************************************************)
Ready == pc = "ready"
HasSeeds == cfg.fwd_meta # <<>> /\ cfg.rev_meta # <<>>
Top == stack[Len(stack)]
Pops == stack # <<>> /\ stack' = SubSeq(stack, 1, Len(stack) - 1)
Pushes == Len(stack') = Len(stack) + 1
SeedKinds == {"all_seeds_active", "seeds_active"}

\* every pair of non-empty seed sets drawn from the registered seeds
SeedSetPairs ==
    (SUBSET _all_seed_vars.fwd \ {{}}) \X (SUBSET _all_seed_vars.rev \ {{}})

\* the array the engine hands out for (F, R)
relevance(map, single_seed2rel, F, R) ==
    _get_rel_array(_rel_array_cache, LiveExtra, map, single_seed2rel,
                   KSet(F), KSet(R)).arr

\* the names a variable array marks
marked(arr) == content2names(arr.c, _all_vars)

\* brute-force search: reachable from a seed of F and reaching a seed of R
BruteForce(F, R) ==
    LET g == DataflowGraph(cfg.m)
    IN (UNION {Reach(g, "fwd", f) : f \in F}) \cap (UNION {Reach(g, "rev", r) : r \in R})
       \cap g.vars

\* the AND of the unions of the per-seed arrays
PerSeed(F, R) ==
    (UNION {marked(_single_seed2relvars.fwd[f]) : f \in F})
    \cap (UNION {marked(_single_seed2relvars.rev[r]) : r \in R})

\* the seed is walked with local set
WalkedLocal(metas, seed) == IsLocalSeed(cfg.m, MetaOf(metas, seed))

\* C1 (as stated): for every pair of non-empty seed sets (F, R) of the
\* registered seeds, the variable relevance array for (F, R) marks exactly
\* the variables that brute-force search finds reachable from a seed of F
\* and reaching a seed of R.
C1_brute_force ==
    (Ready /\ HasSeeds) =>
        \A p \in SeedSetPairs :
            marked(relevance(_seed_var_map, _single_seed2relvars, p[1], p[2]))
                = BruteForce(p[1], p[2])

\* C1 (amended): the variable relevance array for (F, R) is the AND of the
\* unions of the per-seed arrays, and it marks exactly the variables of the
\* brute-force search when no seed of F or R is walked with local set (the
\* model runs on one process, or the seed has no parallel_deriv_color).
C1_relevance ==
    (Ready /\ HasSeeds) =>
        \A p \in SeedSetPairs :
            LET got == marked(relevance(_seed_var_map, _single_seed2relvars, p[1], p[2]))
            IN /\ got = PerSeed(p[1], p[2])
               /\ ((\A f \in p[1] : ~WalkedLocal(cfg.fwd_meta, f))
                   /\ (\A r \in p[2] : ~WalkedLocal(cfg.rev_meta, r)))
                  => got = BruteForce(p[1], p[2])

\* two forward seeds and two reverse seeds whose union is marked by neither
\* alone, on an engine that has stored a requested pair
C1_witness ==
    /\ Ready /\ HasSeeds /\ stack # <<>>
    /\ \E p \in SeedSetPairs :
         /\ Cardinality(p[2]) = 2
         /\ \A r \in p[2] :
              marked(relevance(_seed_var_map, _single_seed2relvars, p[1], {r}))
                # marked(relevance(_seed_var_map, _single_seed2relvars, p[1], p[2]))
         /\ BruteForce(p[1], p[2]) # {}

\* a request: a seed scope is entered and sets non-empty seed sets
Requests ==
    /\ Pushes
    /\ stack'[Len(stack')].kind \in SeedKinds
    /\ ~stack'[Len(stack')].noop
    /\ _seed_vars'.fwd # {} /\ _seed_vars'.rev # {}

\* C2: an array stored in a seed relevance map stays the stored array of its
\* key whatever is requested and entered or left afterwards, and a request
\* for a stored key returns that very array object and creates nothing: the
\* map and the array cache are as before.
C2_identical_instance ==
    [][Ready =>
        /\ \A k \in MapKeys(_seed_var_map) :
             /\ MapHas(_seed_var_map', k[1], k[2])
             /\ MapGet(_seed_var_map', k[1], k[2]) = MapGet(_seed_var_map, k[1], k[2])
        /\ \A k \in MapKeys(_seed_sys_map) :
             /\ MapHas(_seed_sys_map', k[1], k[2])
             /\ MapGet(_seed_sys_map', k[1], k[2]) = MapGet(_seed_sys_map, k[1], k[2])
        /\ Requests =>
             LET fk == KSet(_seed_vars'.fwd)
                 rk == KSet(_seed_vars'.rev)
             IN /\ _current_rel_varray' = MapGet(_seed_var_map', fk, rk)
                /\ _current_rel_sarray' = MapGet(_seed_sys_map', fk, rk)
                /\ MapHas(_seed_var_map, fk, rk) =>
                     /\ _current_rel_varray' = MapGet(_seed_var_map, fk, rk)
                     /\ _seed_var_map' = _seed_var_map
                /\ (MapHas(_seed_var_map, fk, rk) /\ MapHas(_seed_sys_map, fk, rk)) =>
                     /\ _current_rel_sarray' = MapGet(_seed_sys_map, fk, rk)
                     /\ _seed_sys_map' = _seed_sys_map
                     /\ _rel_array_cache' = _rel_array_cache
    ]_vars

\* a key that construction did not store is requested inside a scope that
\* requested it before
C2_witness ==
    /\ Ready /\ Len(stack) >= 2
    /\ Top.kind = "seeds_active" /\ ~Top.noop
    /\ Top.save = _seed_vars
    /\ _seed_vars.fwd # {} /\ _seed_vars.rev # {}
    /\ _seed_vars.rev # _all_seed_vars.rev

\* the names of the model, and a name that is not in the graph
AnyName ==
    cfg.m.comps \cup cfg.m.ins \cup cfg.m.outs \cup {Root, <<"G">>, <<"nope">>}

\* C3: an engine constructed with empty forward or empty reverse seed
\* metadata stays inactive through every sequence and nesting of scopes:
\* the active flag is False and is_relevant and is_relevant_system return
\* True for every name, also for names that are not in the graph.
C3_inactive ==
    (Ready /\ ~HasSeeds) =>
        /\ _active = "False"
        /\ \A n \in AnyName : is_relevant(n) = "True" /\ is_relevant_system(n) = "True"

\* an engine without seeds inside nested seed and partition scopes
C3_witness ==
    /\ Ready /\ ~HasSeeds /\ Len(stack) >= 3
    /\ \E i \in DOMAIN stack : stack[i].kind = "all_seeds_active"
    /\ \E i \in DOMAIN stack : stack[i].kind = "activate_nonlinear"
    /\ \E i \in DOMAIN stack : stack[i].kind = "seeds_active"

\* C4: when an active, seeds_active or all_seeds_active scope is left,
\* normally or by an exception, the active flag and the active forward and
\* reverse seed sets are the ones of the moment before it was entered.
C4_restored ==
    [][(Ready /\ Pops /\ Top.kind \in SeedKinds \cup {"active"}) =>
        /\ _active' = Top.save_active
        /\ _seed_vars' = Top.save
    ]_vars

\* all scopes are left again after a seeds_active scope selected one
\* reverse seed: the engine is as construction left it
C4_witness ==
    /\ Ready /\ HasSeeds /\ stack = <<>>
    /\ _active = "None" /\ _seed_vars = _all_seed_vars
    /\ \E r \in _all_seed_vars.rev :
         /\ {r} # _all_seed_vars.rev
         /\ MapHas(_seed_var_map, KSet(_all_seed_vars.fwd), KSet({r}))
         /\ _current_rel_varray =
              MapGet(_seed_var_map, KSet(_all_seed_vars.fwd), KSet({r}))

\* C5: whenever the engine is active and arrays are current, is_relevant
\* and is_relevant_system answer from the relevance arrays of the active
\* forward and reverse seed sets (the system array unless it is the array of
\* a partition): nothing is left over from a seed scope that was left.
C5_no_leak ==
    (Ready /\ _active = "True" /\ _seed_vars.fwd # {} /\ _seed_vars.rev # {}
           /\ _current_rel_varray # NoArray) =>
        /\ _current_rel_varray.c
             = relevance(_seed_var_map, _single_seed2relvars,
                         _seed_vars.fwd, _seed_vars.rev).c
        /\ _current_rel_sarray \notin Range(_nonlinear_sets) =>
             _current_rel_sarray.c
               = relevance(_seed_sys_map, _single_seed2relsys,
                           _seed_vars.fwd, _seed_vars.rev).c

\* C6 (as stated): inside an all_seeds_active scope of an engine with seeds
\* the engine is active and the active seed sets are all the seeds,
\* whatever the enclosing scopes are.
C6_forces_all ==
    (Ready /\ HasSeeds /\ stack # <<>> /\ Top.kind = "all_seeds_active") =>
        /\ _active = "True"
        /\ _seed_vars = _all_seed_vars

\* C6 (amended): inside an all_seeds_active scope that was entered while
\* the active flag was not False the engine is active and the active seed
\* sets are all the seeds; entered while the flag was False (inside an
\* active(False) scope) the scope changes neither the flag nor the seeds.
C6_all_seeds_active ==
    (Ready /\ HasSeeds /\ stack # <<>> /\ Top.kind = "all_seeds_active") =>
        IF Top.save_active = "False"
          THEN Top.noop /\ _active = "False" /\ _seed_vars = Top.save
          ELSE ~Top.noop /\ _active = "True" /\ _seed_vars = _all_seed_vars

\* all_seeds_active entered inside a seeds_active scope that selected one seed
C6_witness ==
    /\ Ready /\ HasSeeds /\ Len(stack) >= 2
    /\ Top.kind = "all_seeds_active" /\ ~Top.noop
    /\ stack[Len(stack) - 1].kind = "seeds_active"
    /\ Top.save.rev # _all_seed_vars.rev /\ Top.save.rev # {}
    /\ _seed_vars = _all_seed_vars

\* the step enters a scope that takes the branch without a try
EntersNoop == Pushes /\ stack'[Len(stack')].noop

\* C7: when an activate_nonlinear scope is left, normally or by an
\* exception, is_relevant_system answers as before the scope was entered:
\* on an active engine the current system array has the content it had
\* then; and a scope entered with active false, on an inactive engine or
\* with an unknown name changes nothing.
C7_restores_sarray ==
    [][Ready =>
        /\ (Pops /\ Top.kind = "activate_nonlinear" /\ _active' = "True") =>
              _current_rel_sarray'.c = Top.save_sarray.c
        /\ (EntersNoop /\ stack'[Len(stack')].kind = "activate_nonlinear") =>
              UNCHANGED <<_active, _seed_vars, _current_rel_varray, _current_rel_sarray,
                          _rel_array_cache, _seed_var_map, _seed_sys_map>>
    ]_vars

\* the design variable sources, the response sources and the graph the
\* strongly connected components are computed on
nl_dvs == Sources(cfg.fwd_meta)
nl_responses == SourceSet(cfg.rev_meta)
nl_graph == NLGraph(cfg.m, nl_dvs, nl_responses)
Partitioned == Ready /\ HasSeeds /\ cfg.m.gbpop /\ ~model_parts.all

\* C8: for a model with a design variable, a response and
\* group_by_pre_opt_post, the sets pre, iterated and post are pairwise
\* disjoint and their union is the set of the components of the model, also
\* when design variables are outputs of _auto_ivc and _auto_ivc is added to
\* pre.
C8_partition ==
    Partitioned =>
        /\ model_parts.pre \cap model_parts.iterated = {}
        /\ model_parts.pre \cap model_parts.post = {}
        /\ model_parts.iterated \cap model_parts.post = {}
        /\ model_parts.pre \cup model_parts.iterated \cup model_parts.post = cfg.m.comps

\* system p takes a value, directly or through other components, from system q
DependsOn(p, q) == p # q /\ q \in Reach(compute_sys_graph(cfg.m), "rev", p)

\* C9: iterated is the strongly connected component of the design
\* variables in the augmented component graph, it holds the component of
\* every design variable and of every response, no system of pre depends on
\* a system of iterated or of post, and no system of iterated depends on a
\* system of post.
C9_scc_order ==
    Partitioned =>
        /\ model_parts.iterated
             = {SccSystem(nl_graph, n) : n \in SCCOf(nl_graph, dv0_of(nl_dvs))}
               \ groups_added_of(WithOptEdges(cfg.m, nl_dvs, nl_responses), cfg.m.grad_groups)
        /\ \A dv \in Range(nl_dvs) : Parent(dv) \in model_parts.iterated
        /\ \A res \in nl_responses : Parent(res) \in model_parts.iterated
        /\ \A p \in model_parts.pre :
             \A q \in model_parts.iterated \cup model_parts.post : ~DependsOn(p, q)
        /\ \A q \in model_parts.iterated :
             \A r \in model_parts.post : ~DependsOn(q, r)

\* the relevant set of the pair (design variable, response) as the overlap
\* check takes it: its inputs for the design variables, its outputs for the
\* responses
PairRelset(dv, res, filt) ==
    _apply_node_filter(DataflowGraph(cfg.m),
                       content2names(MapGet(_seed_var_map, KStr(dv), KStr(res)).c, _all_vars),
                       filt)

\* two local seeds of the color whose relevant sets intersect for some seed
\* of the other direction
Overlapping(metas, others, fwd) ==
    \E a \in SourceSet(metas) : \E b \in SourceSet(metas) \ {a} :
        /\ a \in cfg.m.local /\ b \in cfg.m.local
        /\ MetaOf(metas, a).parallel_deriv_color # "None"
        /\ MetaOf(metas, a).parallel_deriv_color = MetaOf(metas, b).parallel_deriv_color
        /\ \E o \in SourceSet(others) :
             IF fwd THEN PairRelset(a, o, "inputs") \cap PairRelset(b, o, "inputs") # {}
                    ELSE PairRelset(o, a, "outputs") \cap PairRelset(o, b, "outputs") # {}

\* C10: on more than one process construction fails with the overlap error
\* exactly when two local design variables of one color (mode fwd or auto)
\* or two local responses of one color (mode rev or auto) have relevant
\* sets that intersect for at least one seed of the other direction,
\* whatever the number and the order of those seeds.
C10_overlap_error ==
    (pc \in {"ready", "failed"} /\ HasSeeds /\ cfg.m.nprocs > 1) =>
        (pc = "failed"
           <=> \/ cfg.m.mode \in {"fwd", "auto"} /\ Overlapping(cfg.fwd_meta, cfg.rev_meta, TRUE)
               \/ cfg.m.mode \in {"rev", "auto"} /\ Overlapping(cfg.rev_meta, cfg.fwd_meta, FALSE))

\* worker w has left _par_deriv_err_check
Left(w) == mpi.pc[w] \in {"raised", "done"}

\* C11: every worker enters the allgather of its errs exactly once, with or
\* without errs of its own; no worker raises before every worker has
\* entered it; the workers that have left the check have all raised, with
\* the same message, or none has; and no worker waits in an allgather that
\* another worker has passed by.
C11_consistent_gather ==
    \A w \in DOMAIN mpi.pc :
        /\ mpi.gathers[w] <= 1
        /\ (Left(w) /\ has_par_derivs(cfg.m, cfg.fwd_meta, cfg.rev_meta))
              => mpi.gathers[w] = 1
        /\ mpi.pc[w] = "raised" => \A v \in DOMAIN mpi.pc : mpi.gathers[v] = 1
        /\ \A v \in DOMAIN mpi.pc :
             /\ (Left(w) /\ Left(v)) => (mpi.pc[w] = mpi.pc[v] /\ mpi.msg[w] = mpi.msg[v])
             /\ ~(mpi.pc[w] = "allgather" /\ Left(v) /\ mpi.gathers[v] = 0)

\* every worker has raised, one of them without errs of its own
C11_witness ==
    /\ mpi.pc # <<>>
    /\ \A w \in DOMAIN mpi.pc : mpi.pc[w] = "raised"
    /\ \E w \in DOMAIN mpi.pc : mpi.sent[w] = <<>>
    /\ \E w \in DOMAIN mpi.pc : mpi.sent[w] # <<>>

\* the relevance arrays the engine holds
HeldArrays ==
    (Range(_single_seed2relvars.fwd) \cup Range(_single_seed2relvars.rev)
     \cup Range(_single_seed2relsys.fwd) \cup Range(_single_seed2relsys.rev)
     \cup {MapGet(_seed_var_map, k[1], k[2]) : k \in MapKeys(_seed_var_map)}
     \cup {MapGet(_seed_sys_map, k[1], k[2]) : k \in MapKeys(_seed_sys_map)}
     \cup Range(_nonlinear_sets)
     \cup {_current_rel_varray, _current_rel_sarray}) \ {NoArray}

\* C12: two relevance arrays held by the engine that have equal content are
\* the same array object, the one the relevance array cache holds for the
\* content.
C12_one_instance ==
    Ready =>
        \A a \in HeldArrays : \A b \in HeldArrays \cup Range(_rel_array_cache) :
            a.c = b.c => a = b

\* the construction step that builds the seed maps
Constructs == pc = "new" /\ pc' \in {"ready", "failed"}

\* the seed map m holds an entry under every form of the pair (f, r), and
\* the one-name and one-element forms give arrays of equal content
SeedFormsHeld(m, f, r) ==
    LET fall == KSet(_all_seed_vars.fwd)
        rall == KSet(_all_seed_vars.rev)
        forms == {<<KStr(f), KStr(r)>>, <<KStr(f), KSet({r})>>,
                  <<KSet({f}), KStr(r)>>, <<KSet({f}), KSet({r})>>,
                  <<KStr(f), rall>>, <<fall, KStr(r)>>, <<fall, rall>>}
    IN /\ \A k \in forms : MapHas(m, k[1], k[2])
       /\ \A k \in {<<KStr(f), KSet({r})>>, <<KSet({f}), KStr(r)>>,
                    <<KSet({f}), KSet({r})>>} :
              MapGet(m, k[1], k[2]).c = MapGet(m, KStr(f), KStr(r)).c

\* C13: right after construction with forward and reverse metadata, both
\* seed maps hold an entry under every form of every pair of a forward and
\* a reverse seed, for any number of seeds on each side.
C13_all_key_forms ==
    [][(Constructs /\ HasSeeds) =>
        \A f \in _all_seed_vars'.fwd : \A r \in _all_seed_vars'.rev :
            /\ SeedFormsHeld(_seed_var_map, f, r)'
            /\ SeedFormsHeld(_seed_sys_map, f, r)'
    ]_vars

\* the response sources that no design variable source reaches when the
\* dataflow graph is walked downstream without regard to locality
Unreached ==
    {r \in SourceSet(cfg.rev_meta) :
        \A f \in SourceSet(cfg.fwd_meta) : r \notin Reach(DataflowGraph(cfg.m), "fwd", f)}

\* C14: after construction _no_dv_responses holds exactly the response
\* sources that the unrestricted walk from the design variable sources does
\* not reach.
C14_no_dv_responses ==
    (Ready /\ HasSeeds) => Range(_no_dv_responses) = Unreached

\* the places <<group, position>> of the groups
GroupPlaces(groups) ==
    {<<i, j>> \in (DOMAIN groups) \X (1..MaxRequests + 1) : j \in DOMAIN groups[i].approx}

\* C15: _init_approximations puts every request of the list into exactly one
\* group, the requests of a group have the key of the group, and no two
\* groups have the same key: requests of one grouping key are in one group,
\* in whatever order they were registered.
C15_one_group_per_key ==
    [][get_approx_groups =>
        LET groups == fd'.approx_groups
        IN /\ \A r \in Range(fd._exec_list) :
                 Cardinality({p \in GroupPlaces(groups) : groups[p[1]].approx[p[2]] = r}) = 1
           /\ Cardinality(GroupPlaces(groups)) = Len(fd._exec_list)
           /\ \A p \in GroupPlaces(groups) :
                 _key_fun(fd.dicts, groups[p[1]].approx[p[2]]) = groups[p[1]].key
           /\ \A i \in DOMAIN groups : \A j \in DOMAIN groups :
                 i # j => groups[i].key # groups[j].key
    ]_vars

\* two groups were built, one of them of the first and the last request
\* registered, which the sort had to bring together
C15_witness ==
    /\ fd.pc # "none"
    /\ fd.grouped
    /\ Len(fd.approx_groups) = 2
    /\ \E g \in Range(fd.approx_groups) :
           {a.options : a \in Range(g.approx)} = {1, MaxRequests}

\* the step is _update_coloring with the given coloring, on a list of
\* requests as they were registered
UpdatesColoring(info, coloring) ==
    /\ update_coloring(info, coloring)
    /\ \A tup \in Range(fd._exec_list) : tup.key # NoneKey

\* the requests of the list that match the coloring, in the order of the list
Absorbed(info) ==
    SelectSeq(fd._exec_list, LAMBDA tup : MatchesColoring(fd.dicts, tup, WrtMatches(info)))

\* what C16 says of the list after the step
Consolidated(info) ==
    LET before == fd._exec_list
        after == fd'._exec_list
        absorbed == Absorbed(info)
        keys == {tup.key : tup \in Range(absorbed)}
        synthetic == {i \in DOMAIN after : after[i].key = NoneKey}
    IN /\ Cardinality(synthetic) = 1
       /\ \A i \in synthetic :
            /\ fd'.dicts[after[i].options].approxs = absorbed
            /\ fd'.dicts[after[i].options].coloring = "coloring"
       /\ \A tup \in Range(absorbed) : tup \notin Range(after)
       /\ SelectSeq(after, LAMBDA tup : tup.key # NoneKey)
            = SelectSeq(before, LAMBDA tup : tup.key \notin keys)
       /\ \A id \in DOMAIN fd.dicts : fd'.dicts[id] = fd.dicts[id]

C17_deduplicated ==
    [][\A info \in InfoChoices :
          UpdatesColoring(info, "None") =>
              LET after == fd'._exec_list
                  keys == {tup.key : tup \in Range(Absorbed(info))}
              IN /\ \A i \in DOMAIN after : \A j \in DOMAIN after :
                       (i # j /\ after[i].key = after[j].key) => after[i].key \notin keys
                 /\ \A tup \in Range(after) : tup.key # NoneKey
    ]_vars

RECURSIVE ProbeList(_)
\* the probes of the groups in group order then column order: one for a
\* colored entry, one for each column of an uncolored group
ProbeList(groups) ==
    IF groups = <<>> THEN <<>>
    ELSE LET entry == Head(groups)
         IN (IF entry.wrt = NoName
               THEN <<<<NoName, entry.col_idxs[1]>>>>
               ELSE [i \in 1..Len(entry.col_idxs) |-> <<entry.wrt, i - 1>>])
            \o ProbeList(Tail(groups))

Computing == fd.pc = "compute"
PartialFD == Computing /\ use_parallel_fd(fd.par)

\* C18: under parallel FD every process numbers the probes 0, 1, 2, ... in
\* group order then column order, whether it runs them or not, and probe k
\* is run by the processes of one parallel-FD worker, the one whose
\* par_fd_id is k mod num_par_fd.
C18_round_robin ==
    PartialFD =>
        LET all == ProbeList(fd.scheme._approx_groups)
        IN \A r \in Procs :
             LET me == fd.proc[r]
                 probes == me.acc.probes
             IN /\ Len(probes) <= Len(all)
                /\ (me.pc # "start" /\ ~me.acc.raised) => Len(probes) = Len(all)
                /\ \A i \in DOMAIN probes :
                     /\ probes[i].k = i - 1
                     /\ <<probes[i].wrt, probes[i].col>> = all[i]
                     /\ probes[i].ran <=> (r \div (fd.par.full_size \div fd.par._num_par_fd)
                                            = (i - 1) % fd.par._num_par_fd)

\* two parallel-FD workers of two processes each have gone through all the
\* probes, and each process has run some of them
C18_witness ==
    /\ PartialFD
    /\ fd.par.full_size = 4 /\ fd.par._num_par_fd = 2
    /\ \A r \in Procs :
         /\ fd.proc[r].pc = "done"
         /\ Len(fd.proc[r].acc.probes) >= 3
         /\ \E i \in DOMAIN fd.proc[r].acc.probes : fd.proc[r].acc.probes[i].ran

\* the keys of the uncolored groups
UncoloredKeys ==
    UNION {{<<of, entry.wrt>> : of \in Range(entry.ofs)}
           : entry \in {e \in Range(fd.scheme._approx_groups) : e.wrt # NoName}}

\* C19: when the probes of uncolored groups are distributed over several
\* parallel-FD workers, a process that has finished compute has assigned,
\* for every key of an uncolored group, a block whose every probed column
\* holds the result of its probe, whichever worker ran it.
C19_all_columns ==
    PartialFD =>
        \A r \in Procs :
            fd.proc[r].pc = "done" =>
                \A key \in UncoloredKeys :
                    /\ key \in DOMAIN fd.proc[r].jac
                    /\ \A i \in DOMAIN fd.proc[r].jac[key] :
                           fd.proc[r].jac[key][i] = ProbeResult(key[1], key[2], i)

\* a colored group is computed on a parallel model that is not a serial
\* model for each parallel-FD worker
ColoredUnsupported ==
    /\ Computing
    /\ \E entry \in Range(fd.scheme._approx_groups) : entry.wrt = NoName
    /\ is_parallel(fd.par)
    /\ ~par_fd_w_serial_model(fd.par)

\* C20: when a colored group is computed on a parallel model that is not in
\* the serial-model-per-worker configuration, every process ends compute in
\* NotImplementedError: none finishes, none assigns a Jacobian entry and
\* none enters an all-gather.
C20_unsupported_raises ==
    ColoredUnsupported =>
        \A r \in Procs :
            /\ fd.proc[r].pc \in {"start", "raised"}
            /\ fd.proc[r].jac = <<>>
            /\ fd.proc[r].gathers = 0

\* all processes have raised: the ones that ran the colored probe inside the
\* loop, the other ones after it
C20_witness ==
    /\ ColoredUnsupported
    /\ \A r \in Procs : fd.proc[r].pc = "raised"
    /\ \E r \in Procs : fd.proc[r].acc.raised
    /\ \E r \in Procs : ~fd.proc[r].acc.raised

\* a call of _from_dense has returned or raised
FromDense == fd.pc = "from_dense"
StoredMeta == fd.jac[fd.key]

\* C21: _from_dense raises TypeError when a Jacobian is given and the stored
\* value has no rows/cols pattern and is none of ndarray, COO, CSC, CSR; for
\* these four it returns a value and does not raise; with no Jacobian it
\* returns the dense block unchanged.
C21_from_dense ==
    FromDense =>
        IF fd.jac = NoJac
          THEN fd.out = Returned(fd.subjac)
          ELSE StoredMeta.rows = <<>> =>
                 IF StoredMeta.value.type \in RecognizedTypes
                   THEN fd.out.raises = "None"
                   ELSE fd.out.raises = "TypeError"

\* both schemes of a serial system have computed
Serial == fd.pc = "serial"
BothComputed == Serial /\ fd.plain.calls > 0 /\ fd.colored.calls > 0
ColoredBlocks ==
    UNION {{a.key : a \in Range(entry.approxs)}
           : entry \in {e \in Range(fd.colored.scheme._approx_groups) : e.wrt = NoName}}
SameBlock(a, b) == DOMAIN a = DOMAIN b /\ \A ij \in DOMAIN a : SameNumber(a[ij], b[ij])

\* every probe of the scheme without coloring moves one column
OneColumnAtATime == \A entry \in Range(fd.plain.scheme._approx_groups) : ~entry.data[3]

\* C22: on a serial model whose Jacobian has the sparsity the coloring
\* assumes, the colored execution assigns to every (of, wrt) block of the
\* coloring the values the execution one column at a time assigns.
C22_coloring_equivalence ==
    (BothComputed /\ OneColumnAtATime
       /\ SparsityHolds(fd.A, fd.wrt_matches, fd.colors)) =>
        \A key \in ColoredBlocks :
            /\ key \in DOMAIN fd.colored.jac
            /\ key \in DOMAIN fd.plain.jac
            /\ SameBlock(fd.colored.jac[key], fd.plain.jac[key])

\* the blocks one run of a scheme has assigned are all divided once, by the
\* step of the group that produced the block
ScaledByOwnStep(run) ==
    \A entry \in Range(run.scheme._approx_groups) :
        \A key \in IF entry.wrt = NoName
                     THEN {a.key : a \in Range(entry.approxs)}
                     ELSE {<<of, entry.wrt>> : of \in Range(entry.ofs)} :
            /\ key \in DOMAIN run.jac
            /\ \A ij \in DOMAIN run.jac[key] :
                   run.jac[key][ij].den = _get_multiplier(entry.data)

\* C23: after every call of _compute_approximations, the first and the
\* later ones, every assembled block is scaled exactly once, by the
\* multiplier of the step data of the group that produced the block.
C23_scaled_once ==
    Serial =>
        /\ fd.plain.calls > 0 => ScaledByOwnStep(fd.plain)
        /\ fd.colored.calls > 0 => ScaledByOwnStep(fd.colored)

\* C24: a seeds_active scope that is entered with None for a side keeps, for
\* that side, the seeds that were active when the scope was entered, also
\* inside a seeds_active scope that selected a strict subset of the seeds.
C24_none_keeps_current ==
    [][\A a \in SeedArgPairs :
         (seeds_active_enter(a[1], a[2]) /\ ~skips_seed_scope) =>
             /\ a[1].none => _seed_vars'.fwd = _seed_vars.fwd
             /\ a[2].none => _seed_vars'.rev = _seed_vars.rev]_vars

Returned_walk == walk.pc = "returned"
WalkGraph == DataflowGraph(cfg.m)
\* the nodes whose locality attribute is false
NotLocalNodes == {n \in WalkGraph.nodes : n \in WalkGraph.haslocal /\ n \notin WalkGraph.local}
\* the graph without these nodes
LocalGraph ==
    [WalkGraph EXCEPT !.nodes = @ \ NotLocalNodes,
                      !.edges = {e \in @ : e[1] \notin NotLocalNodes /\ e[2] \notin NotLocalNodes}]

\* C25: _dependent_nodes returns the empty set when start is no node of the
\* graph; with local unset it returns start and every node reachable from
\* it in the direction; with local set the result holds no non-local node
\* and every node of it is reachable from start through nodes that are
\* local or have no locality attribute.
C25_dependent_nodes ==
    Returned_walk =>
        /\ walk.start \notin WalkGraph.nodes => walk.out = {}
        /\ (walk.start \in WalkGraph.nodes /\ ~walk.local) =>
               walk.out = Reach(WalkGraph, walk.direction, walk.start)
        /\ walk.local =>
               /\ walk.out \cap NotLocalNodes = {}
               /\ walk.out \subseteq Reach(LocalGraph, walk.direction, walk.start)

\* a local walk that stopped at a non-local node after it had visited others
C25_witness ==
    /\ Returned_walk
    /\ walk.local
    /\ Cardinality(walk.out) >= 2
    /\ Reach(WalkGraph, walk.direction, walk.start) \cap NotLocalNodes # {}

\* C28: with local set, _dependent_nodes returns one and the same set for a
\* graph, a start node and a direction, whatever the order in which the
\* graph enumerates the successors (or predecessors) of a node.
C28_order_independent ==
    (Returned_walk /\ walk.local) =>
        _dependent_nodes(WalkGraph, walk.start, walk.direction, TRUE) = {walk.out}

\* C26: the content of an array the engine holds (in the cache, in a
\* per-seed map or in the seed map) never changes, and every array of the
\* cache has the content it is stored under.
C26_published_immutable ==
    /\ [](heap.pc = "ready" =>
            \A hash \in DOMAIN heap.cache : heap.objs[heap.cache[hash]] = hash)
    /\ [][heap.pc = "ready" =>
            \A id \in Referenced(heap) :
                id \in DOMAIN heap'.objs /\ heap'.objs[id] = heap.objs[id]]_vars

\* the union of the arrays of two seeds was combined and stored while the
\* arrays of the seeds differ
C26_witness ==
    /\ heap.pc = "ready"
    /\ \E key \in DOMAIN heap.map :
         /\ Cardinality(key[1]) = 2
         /\ \E s1, s2 \in key[1] :
                heap.objs[heap.single.fwd[s1]] # heap.objs[heap.single.fwd[s2]]
         /\ heap.map[key] \notin Range(heap.single.fwd)

\* C27: an engine constructed with non-empty forward and reverse seed
\* metadata starts with the active flag None, and with that flag
\* is_relevant and is_relevant_system return True for every name; entering
\* active(True) with the flag None changes nothing of the engine, entering
\* seeds_active or all_seeds_active with the flag None sets it to True, the
\* flag is True whenever such a scope is the innermost one, and leaving the
\* scope sets the flag back to None.
C27_uninitialized ==
    /\ [][(Construct /\ HasSeeds /\ pc' = "ready") => _active' = "None"]_vars
    /\ []((Ready /\ HasSeeds /\ _active = "None") =>
            \A n \in AnyName : is_relevant(n) = "True" /\ is_relevant_system(n) = "True")
    /\ [][(Ready /\ HasSeeds /\ _active = "None") =>
            /\ active_enter(TRUE) =>
                 /\ stack'[Len(stack')].noop
                 /\ UNCHANGED <<_active, _seed_vars, _current_rel_varray,
                                _current_rel_sarray, _rel_array_cache,
                                _seed_var_map, _seed_sys_map>>
            /\ (all_seeds_active_enter
                  \/ \E a \in SeedArgPairs : seeds_active_enter(a[1], a[2])) =>
                 /\ ~stack'[Len(stack')].noop
                 /\ _active' = "True"]_vars
    /\ []((Ready /\ HasSeeds /\ stack # <<>> /\ Top.kind \in SeedKinds
                 /\ Top.save_active = "None") => _active = "True")
    /\ [][(Ready /\ HasSeeds /\ Pops /\ Top.kind \in SeedKinds
                 /\ Top.save_active = "None") => _active' = "None"]_vars

\* a seed scope is open inside an active scope that was entered on the
\* engine as construction left it, and the engine is active
C27_witness ==
    /\ Ready /\ HasSeeds /\ Len(stack) = 2
    /\ stack[1].kind = "active" /\ stack[1].noop /\ stack[1].save_active = "None"
    /\ stack[2].kind \in SeedKinds /\ ~stack[2].noop /\ stack[2].save_active = "None"
    /\ _active = "True"

\* the systems a system array marks
marked_systems(arr) == content2names(arr.c, _all_systems)

\* the root is in S and so is every ancestor of a member of S
ClosedUnderAncestors(S) ==
    /\ Root \in S
    /\ \A s \in S : all_ancestors(s) \subseteq S

\* a seeds_active or all_seeds_active scope that took effect is open
UnderSeedScope ==
    \E i \in DOMAIN stack : stack[i].kind \in SeedKinds /\ ~stack[i].noop

\* C29: for every pair of non-empty seed sets the system relevance array
\* marks the root system '' and, with every system it marks, each of that
\* system's ancestors; and while the engine is active inside a seeds_active
\* or all_seeds_active scope, is_relevant_system('') returns True.
C29_closed_under_ancestors ==
    (Ready /\ HasSeeds) =>
        /\ \A io \in {"fwd", "rev"} : \A s \in DOMAIN _single_seed2relsys[io] :
             ClosedUnderAncestors(marked_systems(_single_seed2relsys[io][s]))
        /\ \A p \in SeedSetPairs :
             ClosedUnderAncestors(marked_systems(
                 relevance(_seed_sys_map, _single_seed2relsys, p[1], p[2])))
        /\ (_active = "True" /\ UnderSeedScope) => is_relevant_system(Root) = "True"

\* the scheme has a colored group
ColoredGroup ==
    \E g \in DOMAIN fd.scheme._approx_groups : fd.scheme._approx_groups[g].wrt = NoName

\* every configuration but a colored group on a parallel model whose
\* parallel-FD workers do not each hold a serial model
Supported == ~(ColoredGroup /\ is_parallel(fd.par) /\ ~par_fd_w_serial_model(fd.par))

\* the all-gathers the configuration asks of every process
ConfiguredCalls ==
    IF ColoredGroup
      THEN IF par_fd_w_serial_model(fd.par) THEN <<"allgather_colored">> ELSE <<>>
    ELSE IF is_parallel(fd.par) THEN <<"allgather_results">>
    ELSE <<>>

\* C30: the all-gathers a process issues in _compute_approximations are
\* decided by whether a colored group exists, whether every parallel-FD
\* worker holds a serial model and whether the model is parallel: every
\* process that has left the loop has issued the same calls, whatever its
\* _par_fd_id and the probes it ran; and in a supported configuration no
\* process raises and every process gets out of its all-gather and
\* finishes the call.
C30_collectives_match ==
    /\ [](Computing =>
            \A r \in Procs : fd.proc[r].pc # "start"
                                => fd.proc[r].calls = ConfiguredCalls)
    /\ []((Computing /\ Supported) => \A r \in Procs : fd.proc[r].pc # "raised")
    /\ (Computing /\ Supported) ~> (Computing /\ \A r \in Procs : fd.proc[r].pc = "done")

\* two workers of different parallel-FD blocks ran different probes, issued
\* the same all-gather and have both finished
C30_witness ==
    /\ Computing /\ Supported
    /\ \E r, v \in Procs :
         /\ _par_fd_id(fd.par, r) # _par_fd_id(fd.par, v)
         /\ fd.proc[r].pc = "done" /\ fd.proc[v].pc = "done"
         /\ fd.proc[r].calls # <<>> /\ fd.proc[r].calls = fd.proc[v].calls
         /\ fd.proc[r].acc.probes # fd.proc[v].acc.probes

====
